---------------------------- MODULE Spec2Model ----------------------------
(***************************************************************************)
(* The inventory page (MedicalSuppliesPage) of b4pdatabase as a state      *)
(* machine: the component's React state, the hosted store it talks to, and *)
(* the asynchronous handlers, one step per stretch of code between awaits. *)
(*                                                                         *)
(* Conventions                                                             *)
(*  - A JavaScript value that may be null/undefined (a column of a stored  *)
(*    row, a field of the Partial<SupplyItem> draft) is <<>> when absent   *)
(*    and <<v>> when present.                                              *)
(*  - A remote call in flight is an entry of `calls`: first the request is *)
(*    on its way (net = "req"), then the store has processed it and the    *)
(*    response is on its way (net = "resp"), then the handler's            *)
(*    continuation runs.  A call may instead fail before the store has     *)
(*    processed it: the continuation then runs with an { error } result or *)
(*    a rejected promise.  The entry carries the values the handler closed *)
(*    over when it was invoked (formData, imageFile, editingItem,          *)
(*    selectedItem) and its locals.                                        *)
(*  - An image upload is one step: the storage service holds no state the  *)
(*    page reads back, so only whether it succeeded is drawn.              *)
(*  - The dialogs are modal: while one is open only its own controls can   *)
(*    be used; while `loading` is true the page renders only a spinner.    *)
(***************************************************************************)
EXTENDS Integers, Sequences, FiniteSets, TLC

(* ------------------------------ bounds -------------------------------- *)

\* the user's clicks (on a table row or a button) in one run
MaxClicks == 4
\* remote calls that may be outstanding together: half as many as the clicks
MaxCalls == MaxClicks \div 2

(* ------------------------- nullable JS values -------------------------- *)

None == <<>>
Some(v) == <<v>>

\* x || d for strings, numbers, booleans
OrStr(m, d) == IF m = None THEN d ELSE IF m[1] = "" THEN d ELSE m[1]
OrNum(m, d) == IF m = None THEN d ELSE IF m[1] = 0 THEN d ELSE m[1]
OrBool(m, d) == IF m = None THEN d ELSE IF m[1] = FALSE THEN d ELSE m[1]
\* x ?? d
Nullish(m, d) == IF m = None THEN d ELSE m[1]
\* !x
FalsyStr(m) == m = None \/ m[1] = ""
FalsyNum(m) == m = None \/ m[1] = 0

LogoPng == "/logo.png"
DefaultExpiresOn == "2025-12-31"

(* --------------------- row <-> item transformations -------------------- *)

\* fetchItems: data.map(item => ({...}))
ToViewModelFetch(item) ==
  [ id |-> item.id,
    name |-> item.name,
    description |-> OrStr(item.description, ""),
    lotNumber |-> OrStr(item.lot_number, ""),
    expiresOn |-> OrStr(item.expires_on, DefaultExpiresOn),
    quantity |-> OrNum(item.quantity, 0),
    imageUrl |-> OrStr(item.image_url, LogoPng),
    isExpired |-> OrBool(item.is_expired, FALSE),
    typeOfSupply |-> OrStr(item.type_of_supply, ""),
    palletLocation |-> OrStr(item.pallet_location, ""),
    company |-> OrStr(item.company, ""),
    cardboardBoxesPerPallet |-> OrNum(item.cardboard_boxes_per_pallet, 0),
    unitBoxesPerCardboard |-> OrNum(item.unit_boxes_per_cardboard, 0),
    unitsPerBox |-> OrNum(item.units_per_box, 0),
    weightPerCardboardBox |-> OrNum(item.weight_per_cardboard_box, 0),
    dimensionsCardboardBox |-> OrStr(item.dimensions_cardboard_box, ""),
    costPerUnitBox |-> OrNum(item.cost_per_unit_box, 0),
    costPerCardboardBox |-> OrNum(item.cost_per_cardboard_box, 0),
    relevantLink |-> OrStr(item.relevant_link, ""),
    otherNotes |-> OrStr(item.other_notes, "") ]

\* handleSaveItem, update branch: updatedItem built from the returned row
UpdatedItemFromRow(updatedRow) ==
  [ id |-> updatedRow.id,
    name |-> updatedRow.name,
    description |-> OrStr(updatedRow.description, ""),
    lotNumber |-> OrStr(updatedRow.lot_number, ""),
    expiresOn |-> OrStr(updatedRow.expires_on, ""),
    quantity |-> OrNum(updatedRow.quantity, 0),
    imageUrl |-> OrStr(updatedRow.image_url, LogoPng),
    isExpired |-> OrBool(updatedRow.is_expired, FALSE),
    typeOfSupply |-> OrStr(updatedRow.type_of_supply, ""),
    palletLocation |-> OrStr(updatedRow.pallet_location, ""),
    company |-> OrStr(updatedRow.company, ""),
    cardboardBoxesPerPallet |-> OrNum(updatedRow.cardboard_boxes_per_pallet, 0),
    unitBoxesPerCardboard |-> OrNum(updatedRow.unit_boxes_per_cardboard, 0),
    unitsPerBox |-> OrNum(updatedRow.units_per_box, 0),
    weightPerCardboardBox |-> OrNum(updatedRow.weight_per_cardboard_box, 0),
    dimensionsCardboardBox |-> OrStr(updatedRow.dimensions_cardboard_box, ""),
    costPerUnitBox |-> OrNum(updatedRow.cost_per_unit_box, 0),
    costPerCardboardBox |-> OrNum(updatedRow.cost_per_cardboard_box, 0),
    relevantLink |-> OrStr(updatedRow.relevant_link, ""),
    otherNotes |-> OrStr(updatedRow.other_notes, "") ]

\* handleSaveItem, update branch: updatedItem built from the draft when the
\* store returned no row
UpdatedItemFromForm(fd, ed) ==
  [ id |-> ed.id,
    name |-> IF FalsyStr(fd.name) THEN ed.name ELSE fd.name,
    description |-> Nullish(fd.description, ed.description),
    lotNumber |-> Nullish(fd.lotNumber, ed.lotNumber),
    expiresOn |-> Nullish(fd.expiresOn, ed.expiresOn),
    quantity |-> Nullish(fd.quantity, ed.quantity),
    imageUrl |-> Nullish(fd.imageUrl, ed.imageUrl),
    isExpired |-> Nullish(fd.isExpired, ed.isExpired),
    typeOfSupply |-> Nullish(fd.typeOfSupply, ed.typeOfSupply),
    palletLocation |-> Nullish(fd.palletLocation, ed.palletLocation),
    company |-> Nullish(fd.company, ed.company),
    cardboardBoxesPerPallet |-> Nullish(fd.cardboardBoxesPerPallet, ed.cardboardBoxesPerPallet),
    unitBoxesPerCardboard |-> Nullish(fd.unitBoxesPerCardboard, ed.unitBoxesPerCardboard),
    unitsPerBox |-> Nullish(fd.unitsPerBox, ed.unitsPerBox),
    weightPerCardboardBox |-> Nullish(fd.weightPerCardboardBox, ed.weightPerCardboardBox),
    dimensionsCardboardBox |-> Nullish(fd.dimensionsCardboardBox, ed.dimensionsCardboardBox),
    costPerUnitBox |-> Nullish(fd.costPerUnitBox, ed.costPerUnitBox),
    costPerCardboardBox |-> Nullish(fd.costPerCardboardBox, ed.costPerCardboardBox),
    relevantLink |-> Nullish(fd.relevantLink, ed.relevantLink),
    otherNotes |-> Nullish(fd.otherNotes, ed.otherNotes) ]

\* NewItemFromRow with imageUrl taken from the inserted row, not finalImageUrl
NewItemFromRowImage(newRow, finalImageUrl) ==
  [ToViewModelFetch(newRow) EXCEPT !.expiresOn = OrStr(newRow.expires_on, "")]

\* handleSaveItem, create branch: newItem built from the inserted row
NewItemFromRow(newRow, finalImageUrl) ==
  [ id |-> newRow.id,
    name |-> newRow.name,
    description |-> OrStr(newRow.description, ""),
    lotNumber |-> OrStr(newRow.lot_number, ""),
    expiresOn |-> OrStr(newRow.expires_on, ""),
    quantity |-> OrNum(newRow.quantity, 0),
    imageUrl |-> finalImageUrl,
    isExpired |-> OrBool(newRow.is_expired, FALSE),
    typeOfSupply |-> OrStr(newRow.type_of_supply, ""),
    palletLocation |-> OrStr(newRow.pallet_location, ""),
    company |-> OrStr(newRow.company, ""),
    cardboardBoxesPerPallet |-> OrNum(newRow.cardboard_boxes_per_pallet, 0),
    unitBoxesPerCardboard |-> OrNum(newRow.unit_boxes_per_cardboard, 0),
    unitsPerBox |-> OrNum(newRow.units_per_box, 0),
    weightPerCardboardBox |-> OrNum(newRow.weight_per_cardboard_box, 0),
    dimensionsCardboardBox |-> OrStr(newRow.dimensions_cardboard_box, ""),
    costPerUnitBox |-> OrNum(newRow.cost_per_unit_box, 0),
    costPerCardboardBox |-> OrNum(newRow.cost_per_cardboard_box, 0),
    relevantLink |-> OrStr(newRow.relevant_link, ""),
    otherNotes |-> OrStr(newRow.other_notes, "") ]

\* databaseData writing another literal for a missing description
DatabaseDataOtherLiteral(fd, imageUrl) ==
  [ name |-> fd.name,
    description |-> Some(OrStr(fd.description, "n/a")),
    lot_number |-> Some(OrStr(fd.lotNumber, "")),
    expires_on |-> fd.expiresOn,
    quantity |-> Some(OrNum(fd.quantity, 0)),
    image_url |-> Some(imageUrl),
    is_expired |-> Some(OrBool(fd.isExpired, FALSE)),
    type_of_supply |-> fd.typeOfSupply,
    pallet_location |-> Some(OrStr(fd.palletLocation, "")),
    company |-> Some(OrStr(fd.company, "")),
    cardboard_boxes_per_pallet |-> Some(OrNum(fd.cardboardBoxesPerPallet, 0)),
    unit_boxes_per_cardboard |-> Some(OrNum(fd.unitBoxesPerCardboard, 0)),
    units_per_box |-> Some(OrNum(fd.unitsPerBox, 0)),
    weight_per_cardboard_box |-> Some(OrNum(fd.weightPerCardboardBox, 0)),
    dimensions_cardboard_box |-> Some(OrStr(fd.dimensionsCardboardBox, "")),
    cost_per_unit_box |-> Some(OrNum(fd.costPerUnitBox, 0)),
    cost_per_cardboard_box |-> Some(OrNum(fd.costPerCardboardBox, 0)),
    relevant_link |-> Some(OrStr(fd.relevantLink, "")),
    other_notes |-> Some(OrStr(fd.otherNotes, "")) ]

\* handleSaveItem: databaseData (the columns sent; the id is not among them)
DatabaseData(fd, imageUrl) ==
  [ name |-> fd.name,
    description |-> Some(OrStr(fd.description, "")),
    lot_number |-> Some(OrStr(fd.lotNumber, "")),
    expires_on |-> fd.expiresOn,
    quantity |-> Some(OrNum(fd.quantity, 0)),
    image_url |-> Some(imageUrl),
    is_expired |-> Some(OrBool(fd.isExpired, FALSE)),
    type_of_supply |-> fd.typeOfSupply,
    pallet_location |-> Some(OrStr(fd.palletLocation, "")),
    company |-> Some(OrStr(fd.company, "")),
    cardboard_boxes_per_pallet |-> Some(OrNum(fd.cardboardBoxesPerPallet, 0)),
    unit_boxes_per_cardboard |-> Some(OrNum(fd.unitBoxesPerCardboard, 0)),
    units_per_box |-> Some(OrNum(fd.unitsPerBox, 0)),
    weight_per_cardboard_box |-> Some(OrNum(fd.weightPerCardboardBox, 0)),
    dimensions_cardboard_box |-> Some(OrStr(fd.dimensionsCardboardBox, "")),
    cost_per_unit_box |-> Some(OrNum(fd.costPerUnitBox, 0)),
    cost_per_cardboard_box |-> Some(OrNum(fd.costPerCardboardBox, 0)),
    relevant_link |-> Some(OrStr(fd.relevantLink, "")),
    other_notes |-> Some(OrStr(fd.otherNotes, "")) ]

\* a stored row: the columns of databaseData under the id the store assigned
RowOf(id, cols) == [c \in {"id"} \cup DOMAIN cols |-> IF c = "id" THEN id ELSE cols[c]]

\* openEditModal: setFormData(item)
FormOfItem(item) ==
  [ id |-> Some(item.id),
    name |-> item.name,
    description |-> Some(item.description),
    lotNumber |-> Some(item.lotNumber),
    expiresOn |-> Some(item.expiresOn),
    quantity |-> Some(item.quantity),
    imageUrl |-> Some(item.imageUrl),
    isExpired |-> Some(item.isExpired),
    typeOfSupply |-> Some(item.typeOfSupply),
    palletLocation |-> Some(item.palletLocation),
    company |-> Some(item.company),
    cardboardBoxesPerPallet |-> Some(item.cardboardBoxesPerPallet),
    unitBoxesPerCardboard |-> Some(item.unitBoxesPerCardboard),
    unitsPerBox |-> Some(item.unitsPerBox),
    weightPerCardboardBox |-> Some(item.weightPerCardboardBox),
    dimensionsCardboardBox |-> Some(item.dimensionsCardboardBox),
    costPerUnitBox |-> Some(item.costPerUnitBox),
    costPerCardboardBox |-> Some(item.costPerCardboardBox),
    relevantLink |-> Some(item.relevantLink),
    otherNotes |-> Some(item.otherNotes) ]

\* openNewItemModal: the blank draft (no id)
NewItemForm ==
  [ id |-> None,
    name |-> Some(""),
    description |-> Some(""),
    lotNumber |-> Some(""),
    expiresOn |-> Some(""),
    quantity |-> Some(0),
    imageUrl |-> Some(LogoPng),
    isExpired |-> Some(FALSE),
    typeOfSupply |-> Some(""),
    palletLocation |-> Some(""),
    company |-> Some(""),
    cardboardBoxesPerPallet |-> Some(0),
    unitBoxesPerCardboard |-> Some(0),
    unitsPerBox |-> Some(0),
    weightPerCardboardBox |-> Some(0),
    dimensionsCardboardBox |-> Some(""),
    costPerUnitBox |-> Some(0),
    costPerCardboardBox |-> Some(0),
    relevantLink |-> Some(""),
    otherNotes |-> Some("") ]

\* useState<Partial<SupplyItem>>({}) and setFormData({})
EmptyForm == [f \in DOMAIN NewItemForm |-> None]


\* fetchItems: transformedData
TransformedData(data) == [k \in 1..Len(data) |-> ToViewModelFetch(data[k])]

(* ------------------------------- state --------------------------------- *)

VARIABLES
  \* the hosted store
  medical_supplies,   \* the table: a sequence of rows, in insertion order
  nextId,             \* the id the store assigns to the next inserted row
  user_roles,         \* role ids bound to the signed-in user in user_roles
  all_user_roles,     \* what admin_list_users_with_roles reads: the users' role names
  now,                \* reads of Date.now() so far (each read is later than the last)
  \* MedicalSuppliesPage's React state
  items,
  loading,
  selectedItem,
  isItemModalOpen,
  isEditModalOpen,
  isNewItemModalOpen,
  editingItem,
  formData,
  userRoles,
  imageFile,
  uploadingImage,
  searchQuery,
  expiredFilter,
  typeFilter,
  filteredItems,
  crashed,            \* an effect threw and React has unmounted the page
  session,            \* useSession(): the signed-in user's id, if any
  \* AdminUsersPage's React state (its userRoles and loading are prefixed)
  adminUserRoles,
  adminLoading,
  users,
  pendingRole,
  saving,
  adminCalls,
  \* remote calls in flight, each with the closure of the handler awaiting it
  calls,
  \* the user's clicks so far
  clicks,
  \* the toasts raised by the last step, in order
  notice

storeVars == <<medical_supplies, nextId, user_roles, now>>
modalVars == <<isItemModalOpen, isEditModalOpen, isNewItemModalOpen>>
draftVars == <<editingItem, formData, imageFile>>
filterVars == <<searchQuery, expiredFilter, typeFilter>>
adminVars == <<all_user_roles, adminUserRoles, adminLoading, users, pendingRole, saving, adminCalls>>
vars == <<medical_supplies, nextId, user_roles, now, items, loading, selectedItem,
          isItemModalOpen, isEditModalOpen, isNewItemModalOpen, editingItem,
          formData, userRoles, imageFile, uploadingImage, calls, clicks, notice,
          searchQuery, expiredFilter, typeFilter, filteredItems, crashed, session,
          all_user_roles, adminUserRoles, adminLoading, users, pendingRole, saving, adminCalls>>

canManage == "admin" \in userRoles \/ "volunteer" \in userRoles
isAdmin == "admin" \in userRoles

(* ------------------------------ strings -------------------------------- *)

UpperCase == "ABCDEFGHIJKLMNOPQRSTUVWXYZ"
LowerCase == "abcdefghijklmnopqrstuvwxyz"

\* String.prototype.toLowerCase, one character at a time
LowerChar(ch) ==
  IF \E n \in 1..Len(UpperCase) : SubSeq(UpperCase, n, n) = ch
    THEN LET n == CHOOSE n \in 1..Len(UpperCase) : SubSeq(UpperCase, n, n) = ch
         IN SubSeq(LowerCase, n, n)
    ELSE ch

RECURSIVE ToLowerCase(_)
ToLowerCase(str) == IF str = "" THEN "" ELSE LowerChar(SubSeq(str, 1, 1)) \o ToLowerCase(Tail(str))

\* String.prototype.trim
RECURSIVE Trim(_)
Trim(str) ==
  IF str = "" THEN ""
  ELSE IF SubSeq(str, 1, 1) = " " THEN Trim(Tail(str))
  ELSE IF SubSeq(str, Len(str), Len(str)) = " " THEN Trim(SubSeq(str, 1, Len(str) - 1))
  ELSE str

\* String.prototype.includes
Includes(str, part) == \E n \in 0..(Len(str) - Len(part)) : SubSeq(str, n + 1, n + Len(part)) = part

(* ---------------------------- the list filter --------------------------- *)

\* item.name.toLowerCase() is reached and item.name is null: a TypeError
TextThrows(item, query) == Trim(query) # "" /\ item.name = None

\* matchesText (evaluated where it does not throw)
MatchesText(item, query) ==
  \/ Trim(query) = ""
  \/ Includes(ToLowerCase(item.name[1]), ToLowerCase(query))
  \/ Includes(ToLowerCase(item.typeOfSupply), ToLowerCase(query))

\* MatchesExpiry reading the date as well as the flag
MatchesExpiryByDate(item, expired) ==
  LET past == item.isExpired \/ item.expiresOn = "2020-01-01"
  IN expired = "all" \/ (expired = "expired" /\ past) \/ (expired = "not-expired" /\ ~past)

\* matchesExpiry
MatchesExpiry(item, expired) ==
  \/ expired = "all"
  \/ expired = "expired" /\ item.isExpired
  \/ expired = "not-expired" /\ ~item.isExpired

\* matchesType
MatchesType(item, type) == type = "all" \/ item.typeOfSupply = type

\* the callback of items.filter
MatchesAll(item, query, expired, type) ==
  MatchesText(item, query) /\ MatchesExpiry(item, expired) /\ MatchesType(item, type)

\* Array.prototype.filter: the elements the callback keeps, visited in order
RECURSIVE Filtered(_, _, _, _)
Filtered(arr, query, expired, type) ==
  IF arr = <<>> THEN <<>>
  ELSE (IF MatchesAll(Head(arr), query, expired, type) THEN <<Head(arr)>> ELSE <<>>)
         \o Filtered(Tail(arr), query, expired, type)

\* the callback throws on some element: the effect ends before setFilteredItems
FilterThrows(arr, query) == \E k \in 1..Len(arr) : TextThrows(arr[k], query)

\* the effect on [items, searchQuery, expiredFilter, typeFilter]: it reruns at
\* the commit of a step that changed one of them
FilterEffect ==
  IF <<items, searchQuery, expiredFilter, typeFilter>>' = <<items, searchQuery, expiredFilter, typeFilter>>
    THEN UNCHANGED <<filteredItems, crashed>>
    ELSE IF FilterThrows(items', searchQuery')
      THEN crashed' = TRUE /\ UNCHANGED filteredItems
      ELSE crashed' = crashed /\ filteredItems' = Filtered(items', searchQuery', expiredFilter', typeFilter')

\* the commit of a step of the inventory page that is no change of the filters
\* or of the session: the filter effect follows, the admin page is not involved
Commit ==
  /\ UNCHANGED <<filterVars, session, adminVars>>
  /\ FilterEffect

(* ------------------------------ helpers -------------------------------- *)

RemoveAt(s, i) == SubSeq(s, 1, i - 1) \o SubSeq(s, i + 1, Len(s))
Ids(s) == {s[k].id : k \in 1..Len(s)}

\* the roles catalog: role id -> role_name
RolesCatalog == <<"admin", "volunteer", "visitor">>

NoResp == [status |-> "none", rows |-> <<>>]

\* a remote call just dispatched by a handler
Call(kind, pc, fd, img, ed, sel, imageUrl, newRow, filePath) ==
  [ kind |-> kind, pc |-> pc, net |-> "req", resp |-> NoResp,
    formData |-> fd, imageFile |-> img, editingItem |-> ed, selectedItem |-> sel,
    imageUrl |-> imageUrl, uploadedUrl |-> None, newRow |-> newRow, filePath |-> filePath,
    roleIds |-> {}, userId |-> "" ]

\* the next await of the same handler invocation
Await(c, pc) == [c EXCEPT !.pc = pc, !.net = "req", !.resp = NoResp]

\* uploadImageToStorage: fileName and filePath
FilePath(itemId, t, rnd, fileExt) ==
  LET fileName == IF itemId # None
                    THEN ToString(itemId[1]) \o "-" \o ToString(t) \o "." \o fileExt
                    ELSE "temp-" \o ToString(t) \o "-" \o rnd \o "." \o fileExt
  IN "medical-supplies/" \o fileName

\* storage.from('medical-supplies-images').getPublicUrl(filePath).data.publicUrl
PublicUrl(filePath) == "https://store/medical-supplies-images/" \o filePath

(* --------------------------- sample inputs ----------------------------- *)

\* a row as this page writes it, with an image uploaded for it earlier
FullRow(id) ==
  RowOf(id, DatabaseData([NewItemForm EXCEPT !.name = Some("Gauze"), !.quantity = Some(7),
                            !.typeOfSupply = Some("PPE"), !.expiresOn = Some("2026-06-30")],
                         PublicUrl(FilePath(Some(id), 0, "", "png"))))

\* a row written elsewhere with every column but the id left null
SparseRow(id) == [c \in DOMAIN FullRow(id) |-> IF c = "id" THEN id ELSE None]

InitialTables == { <<>>, <<FullRow(1), SparseRow(2)>> }
InitialUserRoles == { {}, {3}, {1, 2} }

\* what the user may type or pick (a text box may be cleared, and the quantity
\* box yields parseInt(value) || 0)
NameInputs == {"Mask", ""}
QuantityInputs == {7, 0}
TypeInputs == {"PPE"}
ExpiresInputs == {"2026-06-30"}

MaxImageBytes == 5 * 1024 * 1024
ImageType == <<"i", "m", "a", "g", "e", "/", "p", "n", "g">>
PdfType == <<"a", "p", "p", "l", "i", "c", "a", "t", "i", "o", "n", "/", "p", "d", "f">>
FileInputs ==
  { [ext |-> "png", type |-> ImageType, size |-> MaxImageBytes],
    [ext |-> "png", type |-> ImageType, size |-> MaxImageBytes + 1],
    [ext |-> "pdf", type |-> PdfType, size |-> 1024] }

\* file.type.startsWith(prefix)
StartsWith(s, prefix) == Len(s) >= Len(prefix) /\ SubSeq(s, 1, Len(prefix)) = prefix

\* the signed-in user
ViewerId == "u1"

\* the role names of a set of role ids, in the order of the ids
RoleNames(ids) ==
  LET upTo[n \in 0..Len(RolesCatalog)] ==
        IF n = 0 THEN <<>>
        ELSE IF n \in ids THEN Append(upTo[n - 1], RolesCatalog[n]) ELSE upTo[n - 1]
  IN upTo[Len(RolesCatalog)]

\* the users and their role names as admin_list_users_with_roles aggregates
\* them: the viewer's are those bound in user_roles
Directory(viewerRoleIds) ==
  [u \in {"u1", "u2", "u3", "u4"} |->
     CASE u = "u1" -> RoleNames(viewerRoleIds)
       [] u = "u2" -> <<"volunteer", "admin">>
       [] u = "u3" -> <<"visitor", "volunteer">>
       [] u = "u4" -> <<>>]

\* AdminUsersPage is not mounted: its state holds the useState defaults
AdminUnmounted ==
  /\ all_user_roles = Directory(user_roles)
  /\ adminUserRoles = {}
  /\ adminLoading = TRUE
  /\ users = <<>>
  /\ pendingRole = <<>>
  /\ saving = <<>>
  /\ adminCalls = <<>>

\* fetchUserRoles started for a session: its query is for session.user.id
FetchUserRolesOf(userId) ==
  [Call("fetchUserRoles", "user_roles", EmptyForm, None, None, None, "", None, "") EXCEPT !.userId = userId]

FetchUserRolesCall == FetchUserRolesOf(ViewerId)

(* -------------------------------- Init --------------------------------- *)

\* the state after mount: the role effect and the fetchItems effect have each
\* dispatched their first query
Init ==
  /\ medical_supplies \in InitialTables
  /\ nextId = Len(medical_supplies) + 1
  /\ user_roles \in InitialUserRoles
  /\ now = 0
  /\ items = <<>>
  /\ loading = TRUE
  /\ selectedItem = None
  /\ isItemModalOpen = FALSE
  /\ isEditModalOpen = FALSE
  /\ isNewItemModalOpen = FALSE
  /\ editingItem = None
  /\ formData = EmptyForm
  /\ userRoles = {}
  /\ imageFile = None
  /\ uploadingImage = FALSE
  /\ calls = << FetchUserRolesCall,
                Call("fetchItems", "select", EmptyForm, None, None, None, "", None, "") >>
  /\ clicks = 0
  /\ notice = <<>>
  /\ searchQuery = ""
  /\ expiredFilter = "all"
  /\ typeFilter = "all"
  /\ filteredItems = <<>>
  /\ crashed = FALSE
  /\ session = Some(ViewerId)
  /\ AdminUnmounted

(* ------------------- the store processes a request -------------------- *)

Reply(i, status, rows) ==
  calls' = [calls EXCEPT ![i] = [@ EXCEPT !.net = "resp", !.resp = [status |-> status, rows |-> rows]]]

Pending(i, pc) == i \in 1..Len(calls) /\ calls[i].net = "req" /\ calls[i].pc = pc

\* the awaits of uploadImageToStorage: the storage service holds no state the
\* page reads, so its answer is drawn when the handler resumes
UploadPcs == {"upload_edit", "upload_new"}

\* from("medical_supplies").select("*")
SelectItems(i) ==
  /\ Pending(i, "select")
  /\ Reply(i, "ok", medical_supplies)
  /\ UNCHANGED <<clicks, storeVars, items, loading, selectedItem, modalVars, draftVars,
                 userRoles, uploadingImage>>
  /\ notice' = <<>>
  /\ Commit

\* from('medical_supplies').insert([createData]).select(); the response
\* carries the new row unless the store does not return it
InsertRow(i) ==
  /\ Pending(i, "insert")
  /\ LET row == RowOf(nextId, DatabaseData(calls[i].formData, calls[i].imageUrl))
     IN /\ medical_supplies' = Append(medical_supplies, row)
        /\ nextId' = nextId + 1
        /\ \E returned \in BOOLEAN : Reply(i, "ok", IF returned THEN <<row>> ELSE <<>>)
  /\ UNCHANGED <<clicks, user_roles, now, items, loading, selectedItem, modalVars, draftVars,
                 userRoles, uploadingImage>>
  /\ notice' = <<>>
  /\ Commit

\* the table with `cols` written into every row whose id is `id`
WithColumns(table, id, cols) ==
  [k \in 1..Len(table) |->
     IF table[k].id = id
       THEN [c \in DOMAIN table[k] |-> IF c \in DOMAIN cols THEN cols[c] ELSE table[k][c]]
       ELSE table[k]]

MatchingRows(table, id) == SelectSeq(table, LAMBDA r : r.id = id)

\* from('medical_supplies').update(databaseData).eq('id', editingItem.id).select()
UpdateRow(i) ==
  /\ Pending(i, "update")
  /\ LET id == calls[i].editingItem[1].id
         table == WithColumns(medical_supplies, id, DatabaseData(calls[i].formData, calls[i].imageUrl))
     IN /\ medical_supplies' = table
        /\ \E returned \in BOOLEAN :
             Reply(i, "ok", IF returned THEN MatchingRows(table, id) ELSE <<>>)
  /\ UNCHANGED <<clicks, nextId, user_roles, now, items, loading, selectedItem, modalVars, draftVars,
                 userRoles, uploadingImage>>
  /\ notice' = <<>>
  /\ Commit

\* from('medical_supplies').update({ image_url: uploadedUrl }).eq('id', newRow.id)
PatchImage(i) ==
  /\ Pending(i, "patch")
  /\ medical_supplies' = WithColumns(medical_supplies, calls[i].newRow[1].id,
                                     [image_url |-> Some(calls[i].imageUrl)])
  /\ Reply(i, "ok", <<>>)
  /\ UNCHANGED <<clicks, nextId, user_roles, now, items, loading, selectedItem, modalVars, draftVars,
                 userRoles, uploadingImage>>
  /\ notice' = <<>>
  /\ Commit

\* from('medical_supplies').delete().eq('id', selectedItem.id)
DeleteRow(i) ==
  /\ Pending(i, "delete")
  /\ medical_supplies' = SelectSeq(medical_supplies, LAMBDA r : r.id # calls[i].selectedItem[1].id)
  /\ Reply(i, "ok", <<>>)
  /\ UNCHANGED <<clicks, nextId, user_roles, now, items, loading, selectedItem, modalVars, draftVars,
                 userRoles, uploadingImage>>
  /\ notice' = <<>>
  /\ Commit

\* the role id of a role name
RoleId(roleName) == CHOOSE r \in 1..Len(RolesCatalog) : RolesCatalog[r] = roleName

\* the role ids bound to a user in user_roles
RoleIdsOf(userId) == {RoleId(all_user_roles[userId][n]) : n \in 1..Len(all_user_roles[userId])}

\* from("user_roles").select("role_id").eq("user_id", session.user.id)
SelectUserRoles(i) ==
  /\ Pending(i, "user_roles")
  /\ Reply(i, "ok", RoleIdsOf(calls[i].userId))
  /\ UNCHANGED <<clicks, storeVars, items, loading, selectedItem, modalVars, draftVars,
                 userRoles, uploadingImage>>
  /\ notice' = <<>>
  /\ Commit

\* from("roles").select("id, role_name").in("id", roleIds)
SelectRoles(i) ==
  /\ Pending(i, "roles")
  /\ Reply(i, "ok", {RolesCatalog[r] : r \in calls[i].roleIds})
  /\ UNCHANGED <<clicks, storeVars, items, loading, selectedItem, modalVars, draftVars,
                 userRoles, uploadingImage>>
  /\ notice' = <<>>
  /\ Commit

\* what a handler may resume with: the store's response once it has processed
\* the request, and before that a failure that left the store untouched, either
\* an { error } result or a rejected promise
Failures == { [status |-> "error", rows |-> <<>>], [status |-> "throw", rows |-> <<>>] }
Responses(i) == IF calls[i].net = "resp" THEN {calls[i].resp} ELSE Failures

(* ----------------------- fetchItems, fetchUserRoles --------------------- *)

Awaiting(i, pc) == i \in 1..Len(calls) /\ calls[i].pc = pc

FetchItemsCall == Call("fetchItems", "select", EmptyForm, None, None, None, "", None, "")

\* FetchItemsDone emptying the list when the select failed
FetchItemsDoneClearing(i, r) ==
  /\ Awaiting(i, "select")
  /\ items' = IF r.status # "ok" \/ r.rows = <<>> THEN <<>> ELSE TransformedData(r.rows)
  /\ notice' = CASE r.status = "error" -> <<"Failed to load medical supplies: error">>
                  [] r.status = "throw" -> <<"Failed to load medical supplies">>
                  [] OTHER -> <<>>
  /\ loading' = FALSE
  /\ calls' = RemoveAt(calls, i)
  /\ UNCHANGED <<clicks, storeVars, selectedItem, modalVars, draftVars, userRoles, uploadingImage>>
  /\ Commit

\* FetchItemsDone with setLoading(false) after the try, not in a finally: the
\* early returns leave the spinner up
FetchItemsDoneSpinning(i, r) ==
  /\ Awaiting(i, "select")
  /\ LET rows == r.rows
     IN /\ items' = IF r.status # "ok" THEN items
                   ELSE IF rows = <<>> THEN <<>>
                   ELSE TransformedData(rows)
        /\ notice' = CASE r.status = "error" -> <<"Failed to load medical supplies: error">>
                       [] r.status = "throw" -> <<"Failed to load medical supplies">>
                       [] OTHER -> <<>>
        /\ loading' = IF r.status = "error" \/ (r.status = "ok" /\ rows = <<>>) THEN loading ELSE FALSE
  /\ calls' = RemoveAt(calls, i)
  /\ UNCHANGED <<clicks, storeVars, selectedItem, modalVars, draftVars, userRoles, uploadingImage>>
  /\ Commit

\* fetchItems after its select resolved (the finally clears loading)
FetchItemsDone(i, r) ==
  /\ Awaiting(i, "select")
  /\ LET rows == r.rows
     IN /\ items' = IF r.status # "ok" THEN items
                   ELSE IF rows = <<>> THEN <<>>
                   ELSE TransformedData(rows)
        /\ notice' = CASE r.status = "error" -> <<"Failed to load medical supplies: error">>
                       [] r.status = "throw" -> <<"Failed to load medical supplies">>
                       [] OTHER -> <<>>
  /\ loading' = FALSE
  /\ calls' = RemoveAt(calls, i)
  /\ UNCHANGED <<clicks, storeVars, selectedItem, modalVars, draftVars, userRoles, uploadingImage>>
  /\ Commit

\* fetchUserRoles after the user_roles query resolved
FetchUserRolesIds(i, r) ==
  /\ Awaiting(i, "user_roles")
  /\ LET roleIds == r.rows
     IN IF r.status = "ok" /\ roleIds # {}
          THEN /\ calls' = [calls EXCEPT ![i] = Await([@ EXCEPT !.roleIds = roleIds], "roles")]
               /\ UNCHANGED userRoles
          ELSE /\ userRoles' = {}
               /\ calls' = RemoveAt(calls, i)
  /\ notice' = <<>>
  /\ UNCHANGED <<clicks, storeVars, items, loading, selectedItem, modalVars, draftVars, uploadingImage>>
  /\ Commit

\* FetchUserRolesNames leaving the roles as they were when the query failed
FetchUserRolesNamesKeeping(i, r) ==
  /\ Awaiting(i, "roles")
  /\ IF r.status = "ok" THEN userRoles' = r.rows ELSE UNCHANGED userRoles
  /\ calls' = RemoveAt(calls, i)
  /\ notice' = <<>>
  /\ UNCHANGED <<clicks, storeVars, items, loading, selectedItem, modalVars, draftVars, uploadingImage>>
  /\ Commit

\* fetchUserRoles after the roles query resolved
FetchUserRolesNames(i, r) ==
  /\ Awaiting(i, "roles")
  /\ userRoles' = IF r.status = "ok" THEN r.rows ELSE {}
  /\ calls' = RemoveAt(calls, i)
  /\ notice' = <<>>
  /\ UNCHANGED <<clicks, storeVars, items, loading, selectedItem, modalVars, draftVars, uploadingImage>>
  /\ Commit

(* --------------------------- the user's moves --------------------------- *)

\* the page is on screen: there is a session (without one the page navigates
\* to "/"), no effect has thrown, and the spinner is not shown in its place
Rendered == session # None /\ ~crashed /\ ~loading

\* the page is rendered and no dialog covers it
PageUsable == Rendered /\ ~isItemModalOpen /\ ~isEditModalOpen /\ ~isNewItemModalOpen

handleItemClick(k) ==
  /\ clicks < MaxClicks /\ clicks' = clicks + 1
  /\ PageUsable
  /\ k \in 1..Len(filteredItems)
  /\ selectedItem' = Some(filteredItems[k])
  /\ isItemModalOpen' = TRUE
  /\ notice' = <<>>
  /\ UNCHANGED <<storeVars, items, loading, isEditModalOpen, isNewItemModalOpen, draftVars,
                 userRoles, uploadingImage, calls>>
  /\ Commit

\* the detail dialog's Close button / onOpenChange
CloseItemModal ==
  /\ clicks < MaxClicks /\ clicks' = clicks + 1
  /\ Rendered /\ isItemModalOpen
  /\ isItemModalOpen' = FALSE
  /\ notice' = <<>>
  /\ UNCHANGED <<storeVars, items, loading, selectedItem, isEditModalOpen, isNewItemModalOpen,
                 draftVars, userRoles, uploadingImage, calls>>
  /\ Commit

\* the detail dialog's Edit button: selectedItem && openEditModal(selectedItem)
openEditModal ==
  /\ clicks < MaxClicks /\ clicks' = clicks + 1
  /\ Rendered /\ isItemModalOpen /\ selectedItem # None
  /\ canManage
  /\ editingItem' = selectedItem
  /\ formData' = FormOfItem(selectedItem[1])
  /\ imageFile' = None
  /\ isEditModalOpen' = TRUE
  /\ isItemModalOpen' = FALSE
  /\ notice' = <<>>
  /\ UNCHANGED <<storeVars, items, loading, selectedItem, isNewItemModalOpen, userRoles,
                 uploadingImage, calls>>
  /\ Commit

openNewItemModal ==
  /\ clicks < MaxClicks /\ clicks' = clicks + 1
  /\ PageUsable
  /\ canManage
  /\ editingItem' = None
  /\ formData' = NewItemForm
  /\ imageFile' = None
  /\ isNewItemModalOpen' = TRUE
  /\ notice' = <<>>
  /\ UNCHANGED <<storeVars, items, loading, selectedItem, isItemModalOpen, isEditModalOpen,
                 userRoles, uploadingImage, calls>>
  /\ Commit

\* the edit dialog's Cancel button / onOpenChange
CloseEditModal ==
  /\ clicks < MaxClicks /\ clicks' = clicks + 1
  /\ Rendered /\ isEditModalOpen
  /\ isEditModalOpen' = FALSE
  /\ notice' = <<>>
  /\ UNCHANGED <<storeVars, items, loading, selectedItem, isItemModalOpen, isNewItemModalOpen,
                 draftVars, userRoles, uploadingImage, calls>>
  /\ Commit

\* the new-item dialog's Cancel button / onOpenChange
CloseNewItemModal ==
  /\ clicks < MaxClicks /\ clicks' = clicks + 1
  /\ Rendered /\ isNewItemModalOpen
  /\ isNewItemModalOpen' = FALSE
  /\ notice' = <<>>
  /\ UNCHANGED <<storeVars, items, loading, selectedItem, isItemModalOpen, isEditModalOpen,
                 draftVars, userRoles, uploadingImage, calls>>
  /\ Commit

FormOpen == Rendered /\ (isEditModalOpen \/ isNewItemModalOpen)

\* setFormData(prev => ({ ...prev, [field]: value }))
SetField(prev, field, value) == [prev EXCEPT ![field] = Some(value)]

handleInputChange(field, value) ==
  /\ FormOpen
  /\ formData' = SetField(formData, field, value)
  /\ notice' = <<>>
  /\ UNCHANGED <<clicks, storeVars, items, loading, selectedItem, modalVars, editingItem, imageFile,
                 userRoles, uploadingImage, calls>>
  /\ Commit

\* TooLarge turning down a file of exactly the largest size
TooLargeAtBound(file) == file.size >= MaxImageBytes

\* file.size > 5 * 1024 * 1024
TooLarge(file) == file.size > MaxImageBytes

handleImageChange(file) ==
  /\ FormOpen
  /\ IF ~StartsWith(file.type, <<"i", "m", "a", "g", "e", "/">>)
       THEN notice' = <<"Please select an image file">> /\ UNCHANGED imageFile
       ELSE IF TooLarge(file)
         THEN notice' = <<"Image size must be less than 5MB">> /\ UNCHANGED imageFile
         ELSE notice' = <<>> /\ imageFile' = Some(file)
  /\ UNCHANGED <<clicks, storeVars, items, loading, selectedItem, modalVars, editingItem, formData,
                 userRoles, uploadingImage, calls>>
  /\ Commit

(* ---------------------------- handleSaveItem ---------------------------- *)

\* MissingRequired with `!formData.quantity` left out
MissingRequiredButQuantity(fd) ==
  FalsyStr(fd.name) \/ FalsyStr(fd.typeOfSupply) \/ FalsyStr(fd.expiresOn)

\* the required-field check at the top of handleSaveItem
MissingRequired(fd) ==
  FalsyStr(fd.name) \/ FalsyNum(fd.quantity) \/ FalsyStr(fd.typeOfSupply) \/ FalsyStr(fd.expiresOn)

\* let imageUrl = formData.imageUrl || "/logo.png"
DraftImageUrl(fd) == OrStr(fd.imageUrl, LogoPng)

\* what uploadImageToStorage returns: the public URL, or null when the upload
\* returned an error or threw
UploadResult(filePath, uploaded) == IF uploaded THEN Some(PublicUrl(filePath)) ELSE None

\* EditImageUrl falling back to the placeholder instead of the existing image
EditImageUrlOrLogo(uploadedUrl, ed) == IF uploadedUrl # None THEN uploadedUrl[1] ELSE LogoPng

\* edit mode, after the upload: the uploaded URL, or the existing image
EditImageUrl(uploadedUrl, ed) == IF uploadedUrl # None THEN uploadedUrl[1] ELSE ed.imageUrl

\* create mode: tempImageUrl
TempImageUrl(imageUrl, img) == IF img # None THEN LogoPng ELSE imageUrl

\* ReplaceById that adds the item when no entry has its id
ReplaceOrAdd(prev, updatedItem) ==
  IF \E k \in 1..Len(prev) : prev[k].id = updatedItem.id
    THEN [k \in 1..Len(prev) |-> IF prev[k].id = updatedItem.id THEN updatedItem ELSE prev[k]]
    ELSE Append(prev, updatedItem)

\* setItems(prev => prev.map(i => i.id === updatedItem.id ? updatedItem : i))
ReplaceById(prev, updatedItem) ==
  [k \in 1..Len(prev) |-> IF prev[k].id = updatedItem.id THEN updatedItem ELSE prev[k]]

\* Prepend adding at the back
AppendLast(prev, newItem) == prev \o <<newItem>>

\* setItems(prev => [newItem, ...prev])
Prepend(prev, newItem) == <<newItem>> \o prev

\* RemoveById with the test the wrong way round
KeepById(prev, id) == SelectSeq(prev, LAMBDA item : item.id = id)

\* setItems(prev => prev.filter(item => item.id !== selectedItem.id))
RemoveById(prev, id) == SelectSeq(prev, LAMBDA item : item.id # id)

\* "Close modals and reset form" at the end of a successful submit
ResetForm ==
  /\ isEditModalOpen' = FALSE
  /\ isNewItemModalOpen' = FALSE
  /\ formData' = EmptyForm
  /\ editingItem' = None
  /\ imageFile' = None

\* SaveAborted with the `return` forgotten: the handler runs on into the reset
SaveAbortedFallsThrough(message) ==
  /\ notice' = <<message>>
  /\ ResetForm
  /\ UNCHANGED <<items, isItemModalOpen>>

\* toast.error(message) and the handler ends (the `return` after a store error,
\* or the catch): nothing of the page's state is touched
SaveAborted(message) ==
  /\ notice' = <<message>>
  /\ UNCHANGED <<items, modalVars, draftVars>>

\* the click on Save Changes / Create Item, up to the first await
handleSaveItem ==
  /\ clicks < MaxClicks /\ clicks' = clicks + 1
  /\ FormOpen
  /\ IF MissingRequired(formData)
       THEN /\ notice' = <<"Please fill in all required fields">>
            /\ UNCHANGED <<now, uploadingImage, calls>>
       ELSE /\ Len(calls) < MaxCalls
            /\ notice' = <<>>
            /\ IF imageFile # None /\ editingItem # None
                 THEN \* uploadImageToStorage(imageFile, editingItem.id)
                      /\ now' = now + 1
                      /\ uploadingImage' = TRUE
                      /\ calls' = Append(calls,
                           Call("handleSaveItem", "upload_edit", formData, imageFile, editingItem, None,
                                DraftImageUrl(formData), None,
                                FilePath(Some(editingItem[1].id), now + 1, "", imageFile[1].ext)))
                 ELSE IF editingItem # None
                   THEN /\ calls' = Append(calls,
                             Call("handleSaveItem", "update", formData, imageFile, editingItem, None,
                                  DraftImageUrl(formData), None, ""))
                        /\ UNCHANGED <<now, uploadingImage>>
                   ELSE /\ calls' = Append(calls,
                             Call("handleSaveItem", "insert", formData, imageFile, editingItem, None,
                                  TempImageUrl(DraftImageUrl(formData), imageFile), None, ""))
                        /\ UNCHANGED <<now, uploadingImage>>
  /\ UNCHANGED <<medical_supplies, nextId, user_roles, items, loading, selectedItem, modalVars,
                 draftVars, userRoles>>
  /\ Commit

\* edit mode: uploadImageToStorage returned; the update is dispatched
SaveEditUploadDone(i, uploaded) ==
  /\ Pending(i, "upload_edit")
  /\ LET c == calls[i]
         uploadedUrl == UploadResult(c.filePath, uploaded)
     IN /\ calls' = [calls EXCEPT ![i] =
                       Await([c EXCEPT !.uploadedUrl = uploadedUrl,
                                       !.imageUrl = EditImageUrl(uploadedUrl, c.editingItem[1])],
                             "update")]
        /\ notice' = IF uploadedUrl = None THEN <<"Failed to upload image">> ELSE <<>>
  /\ uploadingImage' = FALSE
  /\ UNCHANGED <<clicks, storeVars, items, loading, selectedItem, modalVars, draftVars, userRoles>>
  /\ Commit

\* updatedItem: from the returned row, else from the draft
UpdatedItem(c, data) ==
  IF data # <<>>
    THEN UpdatedItemFromRow(data[1])
    ELSE UpdatedItemFromForm(c.formData, c.editingItem[1])

\* edit mode: the update resolved
SaveUpdateDone(i, r) ==
  /\ Awaiting(i, "update")
  /\ LET c == calls[i]
     IN CASE r.status = "error" ->
               SaveAborted("Failed to update item")
          [] r.status = "throw" ->
               SaveAborted("Failed to save item")
          [] OTHER ->
               /\ items' = ReplaceById(items, UpdatedItem(c, r.rows))
               /\ notice' = <<"Item updated successfully!">>
               /\ ResetForm
               /\ UNCHANGED isItemModalOpen
  /\ calls' = RemoveAt(calls, i)
  /\ UNCHANGED <<clicks, storeVars, loading, selectedItem, userRoles, uploadingImage>>
  /\ Commit

\* let finalImageUrl = newRow.image_url || "/logo.png"
FinalImageUrl(newRow) == OrStr(newRow.image_url, LogoPng)

\* create mode: the insert resolved
SaveInsertDone(i, r) ==
  /\ Awaiting(i, "insert")
  /\ LET c == calls[i]
     IN CASE r.status = "error" ->
               /\ SaveAborted("Failed to create item")
               /\ calls' = RemoveAt(calls, i)
               /\ UNCHANGED <<now, loading, uploadingImage>>
          [] r.status = "throw" ->
               /\ SaveAborted("Failed to save item")
               /\ calls' = RemoveAt(calls, i)
               /\ UNCHANGED <<now, loading, uploadingImage>>
          [] r.status = "ok" /\ r.rows = <<>> ->
               \* no row came back: fetchItems() is started and not awaited
               /\ loading' = TRUE
               /\ calls' = Append(RemoveAt(calls, i), FetchItemsCall)
               /\ notice' = <<"Item created successfully!">>
               /\ ResetForm
               /\ UNCHANGED <<now, items, isItemModalOpen, uploadingImage>>
          [] r.status = "ok" /\ r.rows # <<>> /\ c.imageFile # None ->
               \* uploadImageToStorage(imageFile, newRow.id)
               /\ now' = now + 1
               /\ uploadingImage' = TRUE
               /\ calls' = [calls EXCEPT ![i] =
                    Await([c EXCEPT !.newRow = Some(r.rows[1]),
                                    !.filePath = FilePath(Some(r.rows[1].id), now + 1, "",
                                                          c.imageFile[1].ext)],
                          "upload_new")]
               /\ notice' = <<>>
               /\ UNCHANGED <<items, loading, modalVars, draftVars>>
          [] OTHER ->
               /\ items' = Prepend(items, NewItemFromRow(r.rows[1], FinalImageUrl(r.rows[1])))
               /\ calls' = RemoveAt(calls, i)
               /\ notice' = <<"Item created successfully!">>
               /\ ResetForm
               /\ UNCHANGED <<now, loading, isItemModalOpen, uploadingImage>>
  /\ UNCHANGED <<clicks, medical_supplies, nextId, user_roles, selectedItem, userRoles>>
  /\ Commit

\* SaveNewUploadDone giving the submit up when the upload failed
SaveNewUploadDoneAborting(i, uploaded) ==
  /\ Pending(i, "upload_new")
  /\ LET c == calls[i]
         uploadedUrl == UploadResult(c.filePath, uploaded)
     IN IF uploadedUrl # None
          THEN /\ calls' = [calls EXCEPT ![i] =
                    Await([c EXCEPT !.uploadedUrl = uploadedUrl, !.imageUrl = uploadedUrl[1]], "patch")]
               /\ notice' = <<>>
               /\ UNCHANGED <<items, modalVars, draftVars>>
          ELSE /\ calls' = RemoveAt(calls, i)
               /\ SaveAborted("Failed to upload image")
  /\ uploadingImage' = FALSE
  /\ UNCHANGED <<clicks, storeVars, loading, selectedItem, userRoles>>
  /\ Commit

\* create mode: uploadImageToStorage returned
SaveNewUploadDone(i, uploaded) ==
  /\ Pending(i, "upload_new")
  /\ LET c == calls[i]
         uploadedUrl == UploadResult(c.filePath, uploaded)
     IN IF uploadedUrl # None
          THEN \* the patch of image_url is dispatched
               /\ calls' = [calls EXCEPT ![i] =
                    Await([c EXCEPT !.uploadedUrl = uploadedUrl, !.imageUrl = uploadedUrl[1]], "patch")]
               /\ notice' = <<>>
               /\ UNCHANGED <<items, modalVars, draftVars>>
          ELSE /\ items' = Prepend(items, NewItemFromRow(c.newRow[1], FinalImageUrl(c.newRow[1])))
               /\ calls' = RemoveAt(calls, i)
               /\ notice' = <<"Failed to upload image", "Item created successfully!">>
               /\ ResetForm
               /\ UNCHANGED isItemModalOpen
  /\ uploadingImage' = FALSE
  /\ UNCHANGED <<clicks, storeVars, loading, selectedItem, userRoles>>
  /\ Commit

\* create mode: the patch of image_url resolved (its error is not looked at)
SavePatchDone(i, r) ==
  /\ Awaiting(i, "patch")
  /\ LET c == calls[i]
     IN IF r.status = "throw"
          THEN SaveAborted("Failed to save item")
          ELSE /\ items' = Prepend(items, NewItemFromRow(c.newRow[1], c.imageUrl))
               /\ notice' = <<"Item created successfully!">>
               /\ ResetForm
               /\ UNCHANGED isItemModalOpen
  /\ calls' = RemoveAt(calls, i)
  /\ UNCHANGED <<clicks, storeVars, loading, selectedItem, userRoles, uploadingImage>>
  /\ Commit

(* --------------------------- handleDeleteItem --------------------------- *)

\* the click on Delete Item in the detail dialog, up to the await
handleDeleteItem ==
  /\ clicks < MaxClicks /\ clicks' = clicks + 1
  /\ Rendered /\ isItemModalOpen /\ canManage
  /\ IF selectedItem = None
       THEN /\ notice' = <<"No item selected for deletion">>
            /\ UNCHANGED calls
       ELSE /\ Len(calls) < MaxCalls
            /\ calls' = Append(calls,
                 Call("handleDeleteItem", "delete", EmptyForm, None, None, selectedItem, "", None, ""))
            /\ notice' = <<>>
  /\ UNCHANGED <<storeVars, items, loading, selectedItem, modalVars, draftVars, userRoles,
                 uploadingImage>>
  /\ Commit

\* DeleteDone sending the delete again when it failed
DeleteDoneRetrying(i, r) ==
  /\ Awaiting(i, "delete")
  /\ IF r.status = "ok"
       THEN /\ items' = RemoveById(items, calls[i].selectedItem[1].id)
            /\ notice' = <<"Item deleted successfully!">>
            /\ isItemModalOpen' = FALSE
            /\ selectedItem' = None
            /\ calls' = RemoveAt(calls, i)
       ELSE /\ notice' = <<"Failed to delete item">>
            /\ calls' = Append(RemoveAt(calls, i), Await(calls[i], "delete"))
            /\ UNCHANGED <<items, isItemModalOpen, selectedItem>>
  /\ UNCHANGED <<clicks, storeVars, loading, isEditModalOpen, isNewItemModalOpen, draftVars, userRoles,
                 uploadingImage>>
  /\ Commit

\* the delete resolved
DeleteDone(i, r) ==
  /\ Awaiting(i, "delete")
  /\ IF r.status = "ok"
       THEN /\ items' = RemoveById(items, calls[i].selectedItem[1].id)
            /\ notice' = <<"Item deleted successfully!">>
            /\ isItemModalOpen' = FALSE
            /\ selectedItem' = None
       ELSE /\ notice' = <<"Failed to delete item">>
            /\ UNCHANGED <<items, isItemModalOpen, selectedItem>>
  /\ calls' = RemoveAt(calls, i)
  /\ UNCHANGED <<clicks, storeVars, loading, isEditModalOpen, isNewItemModalOpen, draftVars, userRoles,
                 uploadingImage>>
  /\ Commit

(* --------------------------------- Next --------------------------------- *)

\* the user fills in the form from the top: a field is typed once the required
\* fields above it are filled, and the image is chosen last
FilledAbove(field) ==
  /\ ~FalsyStr(formData.name)
  /\ field # "quantity" => ~FalsyNum(formData.quantity)
  /\ field \notin {"quantity", "typeOfSupply"} => ~FalsyStr(formData.typeOfSupply)
  /\ field = "image" => ~FalsyStr(formData.expiresOn)

CallIndex == 1..Len(calls)

\* every step but the end of fetchItems
PageStep ==
  \/ \E i \in CallIndex : SelectItems(i)
  \/ \E i \in CallIndex : InsertRow(i)
  \/ \E i \in CallIndex : UpdateRow(i)
  \/ \E i \in CallIndex : PatchImage(i)
  \/ \E i \in CallIndex : DeleteRow(i)
  \/ \E i \in CallIndex : SelectUserRoles(i)
  \/ \E i \in CallIndex : SelectRoles(i)
  \/ \E i \in CallIndex : \E r \in Responses(i) : FetchUserRolesIds(i, r)
  \/ \E i \in CallIndex : \E r \in Responses(i) : FetchUserRolesNames(i, r)
  \/ \E k \in 1..Len(filteredItems) : handleItemClick(k)
  \/ CloseItemModal
  \/ openEditModal
  \/ openNewItemModal
  \/ CloseEditModal
  \/ CloseNewItemModal
  \/ \E v \in NameInputs : handleInputChange("name", v)
  \/ \E v \in QuantityInputs : FilledAbove("quantity") /\ handleInputChange("quantity", v)
  \/ \E v \in TypeInputs : FilledAbove("typeOfSupply") /\ handleInputChange("typeOfSupply", v)
  \/ \E v \in ExpiresInputs : FilledAbove("expiresOn") /\ handleInputChange("expiresOn", v)
  \/ \E file \in FileInputs : FilledAbove("image") /\ handleImageChange(file)
  \/ handleSaveItem
  \/ \E i \in CallIndex, uploaded \in BOOLEAN : SaveEditUploadDone(i, uploaded)
  \/ \E i \in CallIndex : \E r \in Responses(i) : SaveUpdateDone(i, r)
  \/ \E i \in CallIndex : \E r \in Responses(i) : SaveInsertDone(i, r)
  \/ \E i \in CallIndex, uploaded \in BOOLEAN : SaveNewUploadDone(i, uploaded)
  \/ \E i \in CallIndex : \E r \in Responses(i) : SavePatchDone(i, r)
  \/ handleDeleteItem
  \/ \E i \in CallIndex : \E r \in Responses(i) : DeleteDone(i, r)

Next ==
  \/ \E i \in CallIndex : \E r \in Responses(i) : FetchItemsDone(i, r)
  \/ PageStep

Spec == Init /\ [][Next]_vars

\* the runs in which every load of the list succeeds
NextLoaded ==
  \/ \E i \in CallIndex : calls[i].net = "resp" /\ FetchItemsDone(i, calls[i].resp)
  \/ PageStep

SpecLoaded == Init /\ [][NextLoaded]_vars

(* ------------------------------ the session ---------------------------- *)

\* the session context hands the page another session (sign-out, a refreshed
\* token of the same user, or the sign-in of another user; counted with the
\* clicks): the effect on [session] runs fetchUserRoles again
SessionChanges(s) ==
  /\ clicks < MaxClicks /\ clicks' = clicks + 1
  /\ session # None
  /\ session' = s
  /\ IF s = None
       THEN userRoles' = {} /\ UNCHANGED calls
       ELSE /\ Len(calls) < MaxCalls
            /\ calls' = Append(calls, FetchUserRolesOf(s[1]))
            /\ UNCHANGED userRoles
  /\ notice' = <<>>
  /\ UNCHANGED <<storeVars, items, loading, selectedItem, modalVars, draftVars, uploadingImage,
                 filterVars, filteredItems, crashed, adminVars>>

\* the runs in which the session changes as well
NextSession ==
  \/ \E s \in {None, Some(ViewerId)} : SessionChanges(s)
  \/ \E i \in CallIndex : \E r \in Responses(i) : FetchItemsDone(i, r)
  \/ PageStep

SpecSession == Init /\ [][NextSession]_vars

\* an administrator changes the roles bound to the signed-in user
RolesChange(roleIds) ==
  /\ user_roles' = roleIds
  /\ all_user_roles' = Directory(roleIds)
  /\ notice' = <<>>
  /\ UNCHANGED <<medical_supplies, nextId, now, items, loading, selectedItem, modalVars, draftVars,
                 userRoles, uploadingImage, calls, clicks, filterVars, filteredItems, crashed, session,
                 adminUserRoles, adminLoading, users, pendingRole, saving, adminCalls>>

\* the runs of the two mount effects and of the role effect as the session
\* and the user's roles change, the user clicking nothing
NextRoles ==
  \/ \E s \in {None, Some(ViewerId), Some("u4")} : SessionChanges(s)
  \/ \E roleIds \in InitialUserRoles : RolesChange(roleIds)
  \/ \E i \in CallIndex : SelectUserRoles(i)
  \/ \E i \in CallIndex : SelectRoles(i)
  \/ \E i \in CallIndex : \E r \in Responses(i) : FetchUserRolesIds(i, r)
  \/ \E i \in CallIndex : \E r \in Responses(i) : FetchUserRolesNames(i, r)
  \/ \E i \in CallIndex : SelectItems(i)
  \/ \E i \in CallIndex : \E r \in Responses(i) : FetchItemsDone(i, r)

SpecRoles == Init /\ [][NextRoles]_vars

(* ------------------------- the search and filters ----------------------- *)

\* the search box: onChange={(e) => setSearchQuery(e.target.value)}
setSearchQuery(value) ==
  /\ PageUsable
  /\ searchQuery' = value
  /\ UNCHANGED <<expiredFilter, typeFilter>>
  /\ notice' = <<>>
  /\ UNCHANGED <<storeVars, items, loading, selectedItem, modalVars, draftVars, userRoles,
                 uploadingImage, calls, clicks, session, adminVars>>
  /\ FilterEffect

\* the "Item expired" select: onValueChange={setExpiredFilter}
setExpiredFilter(value) ==
  /\ PageUsable
  /\ expiredFilter' = value
  /\ UNCHANGED <<searchQuery, typeFilter>>
  /\ notice' = <<>>
  /\ UNCHANGED <<storeVars, items, loading, selectedItem, modalVars, draftVars, userRoles,
                 uploadingImage, calls, clicks, session, adminVars>>
  /\ FilterEffect

\* the "Type of supply" select: onValueChange={setTypeFilter}
setTypeFilter(value) ==
  /\ PageUsable
  /\ typeFilter' = value
  /\ UNCHANGED <<searchQuery, expiredFilter>>
  /\ notice' = <<>>
  /\ UNCHANGED <<storeVars, items, loading, selectedItem, modalVars, draftVars, userRoles,
                 uploadingImage, calls, clicks, session, adminVars>>
  /\ FilterEffect

\* a row as this page writes it
WrittenRow(id, name, type, expired, expiresOn) ==
  RowOf(id, DatabaseData([NewItemForm EXCEPT !.name = Some(name), !.quantity = Some(7),
                            !.typeOfSupply = Some(type), !.isExpired = Some(expired),
                            !.expiresOn = Some(expiresOn)],
                         LogoPng))

\* the rows the filtered tables are made of: two that differ in expires_on
\* only, one expired, one whose name holds the name of a type, one with nulls
FilterRows ==
  { WrittenRow(1, "Mask", "PPE", FALSE, "2026-06-30"),
    WrittenRow(2, "Mask", "PPE", FALSE, "2020-01-01"),
    WrittenRow(3, "Gauze", "Wound Care", TRUE, "2020-01-01"),
    WrittenRow(4, "PPE kit", "Other", TRUE, "2026-06-30"),
    SparseRow(5) }

MaxFilterRows == 3

\* the tables of up to MaxFilterRows of these rows, in any order
FilterTables ==
  UNION { { t \in [1..n -> FilterRows] : \A a, b \in 1..n : a # b => t[a].id # t[b].id }
          : n \in 0..MaxFilterRows }

SearchInputs == {"", " ", "mask", "MASK", " mask", "ppe", "as"}
ExpiredInputs == {"all", "expired", "not-expired"}
TypeFilterInputs == {"all", "PPE", "Wound Care", "Other"}

\* the page once mounted and loaded, for a visitor: the roles and the rows
\* have been fetched
InitFilter ==
  /\ medical_supplies \in FilterTables
  /\ nextId = 6
  /\ user_roles = {3}
  /\ now = 0
  /\ items = TransformedData(medical_supplies)
  /\ loading = FALSE
  /\ selectedItem = None
  /\ isItemModalOpen = FALSE
  /\ isEditModalOpen = FALSE
  /\ isNewItemModalOpen = FALSE
  /\ editingItem = None
  /\ formData = EmptyForm
  /\ userRoles = {RolesCatalog[r] : r \in user_roles}
  /\ imageFile = None
  /\ uploadingImage = FALSE
  /\ calls = <<>>
  /\ clicks = 0
  /\ notice = <<>>
  /\ searchQuery = ""
  /\ expiredFilter = "all"
  /\ typeFilter = "all"
  /\ filteredItems = items
  /\ crashed = FALSE
  /\ session = Some(ViewerId)
  /\ AdminUnmounted

NextFilter ==
  \/ \E value \in SearchInputs : setSearchQuery(value)
  \/ \E value \in ExpiredInputs : setExpiredFilter(value)
  \/ \E value \in TypeFilterInputs : setTypeFilter(value)

SpecFilter == InitFilter /\ [][NextFilter]_vars

(* ============================ AdminUsersPage ============================ *)
(* The page's search box and role filter are left at their defaults, so the *)
(* table shows every loaded user, and the role options are taken as loaded. *)

\* MedicalSuppliesPage's state and its table
inventoryVars ==
  <<medical_supplies, nextId, now, items, loading, selectedItem, modalVars, draftVars, userRoles,
    uploadingImage, calls, filterVars, filteredItems, crashed>>

\* const isAdmin = userRoles.includes("admin") in AdminUsersPage
adminIsAdmin == "admin" \in adminUserRoles

AdminCall(kind, pc, userId, roleName) ==
  [ kind |-> kind, pc |-> pc, net |-> "req", resp |-> NoResp, roleIds |-> {},
    userId |-> userId, roleName |-> roleName ]

AdminCallIndex == 1..Len(adminCalls)
AdminPending(i, pc) == adminCalls[i].net = "req" /\ adminCalls[i].pc = pc
AdminReply(i, status, rows) ==
  adminCalls' = [adminCalls EXCEPT ![i] = [@ EXCEPT !.net = "resp", !.resp = [status |-> status, rows |-> rows]]]
AdminResponses(i) == IF adminCalls[i].net = "resp" THEN {adminCalls[i].resp} ELSE Failures

\* a variant that takes the first role name of the list
currentRoleOfFirst(row) == IF row.roles = <<>> THEN "" ELSE row.roles[1]

\* currentRoleOf: precedence admin > volunteer > visitor
currentRoleOf(row) ==
  IF \E n \in 1..Len(row.roles) : row.roles[n] = "admin" THEN "admin"
  ELSE IF \E n \in 1..Len(row.roles) : row.roles[n] = "volunteer" THEN "volunteer"
  ELSE IF \E n \in 1..Len(row.roles) : row.roles[n] = "visitor" THEN "visitor"
  ELSE ""

\* from("user_roles").select("role_id").eq("user_id", session.user.id)
AdminSelectUserRoles(i) ==
  /\ AdminPending(i, "user_roles")
  /\ AdminReply(i, "ok", user_roles)
  /\ notice' = <<>>
  /\ UNCHANGED <<inventoryVars, user_roles, all_user_roles, session, clicks,
                 adminUserRoles, adminLoading, users, pendingRole, saving>>

\* from("roles").select("id, role_name").in("id", roleIds)
AdminSelectRoles(i) ==
  /\ AdminPending(i, "roles")
  /\ AdminReply(i, "ok", {RolesCatalog[r] : r \in adminCalls[i].roleIds})
  /\ notice' = <<>>
  /\ UNCHANGED <<inventoryVars, user_roles, all_user_roles, session, clicks,
                 adminUserRoles, adminLoading, users, pendingRole, saving>>

\* rpc("admin_list_users_with_roles"): one row per user; roles is null for a
\* user without roles
AdminListUsers(i) ==
  /\ AdminPending(i, "list_users")
  /\ AdminReply(i, "ok",
        LET ids == <<"u1", "u2", "u3", "u4">>
        IN [n \in 1..Len(ids) |->
              [ user_id |-> ids[n], email |-> ids[n] \o "@b4p.org",
                roles |-> IF all_user_roles[ids[n]] = <<>> THEN None
                          ELSE Some(all_user_roles[ids[n]]) ]])
  /\ notice' = <<>>
  /\ UNCHANGED <<inventoryVars, user_roles, all_user_roles, session, clicks,
                 adminUserRoles, adminLoading, users, pendingRole, saving>>

\* rpc("admin_set_single_role", { target_user_id, target_role_name }): the
\* user is left with that role alone
AdminSetSingleRole(i) ==
  /\ AdminPending(i, "set_role")
  /\ all_user_roles' = [all_user_roles EXCEPT ![adminCalls[i].userId] = <<adminCalls[i].roleName>>]
  /\ user_roles' = IF adminCalls[i].userId = ViewerId THEN {RoleId(adminCalls[i].roleName)} ELSE user_roles
  /\ AdminReply(i, "ok", <<>>)
  /\ notice' = <<>>
  /\ UNCHANGED <<inventoryVars, session, clicks, adminUserRoles, adminLoading, users, pendingRole, saving>>

\* the effect on [isAdmin] after setUserRoles(names): loadUsers starts when
\* isAdmin has become true
LoadUsersEffect(names, rest) ==
  IF "admin" \in names /\ ~adminIsAdmin
    THEN /\ adminLoading' = TRUE
         /\ adminCalls' = Append(rest, AdminCall("loadUsers", "list_users", "", ""))
    ELSE /\ UNCHANGED adminLoading
         /\ adminCalls' = rest

\* fetchViewerRoles after the user_roles query resolved
FetchViewerRolesIds(i, r) ==
  /\ adminCalls[i].pc = "user_roles"
  /\ LET roleIds == r.rows
     IN IF r.status = "ok" /\ roleIds # {}
          THEN /\ adminCalls' = [adminCalls EXCEPT ![i] =
                    [@ EXCEPT !.roleIds = roleIds, !.pc = "roles", !.net = "req", !.resp = NoResp]]
               /\ UNCHANGED <<adminUserRoles, adminLoading>>
          ELSE /\ adminUserRoles' = {}
               /\ LoadUsersEffect({}, RemoveAt(adminCalls, i))
  /\ notice' = <<>>
  /\ UNCHANGED <<inventoryVars, user_roles, all_user_roles, session, clicks, users, pendingRole, saving>>

\* fetchViewerRoles after the roles query resolved
FetchViewerRolesNames(i, r) ==
  /\ adminCalls[i].pc = "roles"
  /\ LET names == IF r.status = "ok" THEN r.rows ELSE {}
     IN /\ adminUserRoles' = names
        /\ LoadUsersEffect(names, RemoveAt(adminCalls, i))
  /\ notice' = <<>>
  /\ UNCHANGED <<inventoryVars, user_roles, all_user_roles, session, clicks, users, pendingRole, saving>>

\* loadUsers: mapped
MappedUsers(data) ==
  [n \in 1..Len(data) |->
     [ user_id |-> data[n].user_id, email |-> data[n].email, roles |-> Nullish(data[n].roles, <<>>) ]]

\* loadUsers after the rpc resolved (the finally clears loading)
LoadUsersDone(i, r) ==
  /\ adminCalls[i].pc = "list_users"
  /\ IF r.status = "ok"
       THEN users' = MappedUsers(r.rows) /\ notice' = <<>>
       ELSE UNCHANGED users /\ notice' = <<"Failed to load users">>
  /\ adminLoading' = FALSE
  /\ adminCalls' = RemoveAt(adminCalls, i)
  /\ UNCHANGED <<inventoryVars, user_roles, all_user_roles, session, clicks, adminUserRoles,
                 pendingRole, saving>>

\* a variant without the No Access gate
UsersTableShownUngated == ~adminLoading

\* the users table is rendered: the viewer is an admin and the list is loaded
UsersTableShown == adminIsAdmin /\ ~adminLoading

\* obj[key] of a Record<string, T>, undefined when the key is not set
Lookup(obj, key) == IF key \in DOMAIN obj THEN Some(obj[key]) ELSE None

\* prev => ({ ...prev, [key]: value })
WithKey(prev, key, value) == [k \in DOMAIN prev \cup {key} |-> IF k = key THEN value ELSE prev[k]]

\* the role select of the row of users[n]
handleSelectRole(n, roleName) ==
  /\ clicks < MaxClicks /\ clicks' = clicks + 1
  /\ UsersTableShown
  /\ n \in 1..Len(users)
  /\ pendingRole' = WithKey(pendingRole, users[n].user_id, roleName)
  /\ notice' = <<>>
  /\ UNCHANGED <<inventoryVars, user_roles, all_user_roles, session, adminUserRoles, adminLoading,
                 users, saving, adminCalls>>

\* the Save button of a row: disabled={saving[u.user_id] || !next || next === current}
SaveDisabled(u) ==
  LET current == currentRoleOf(u)
      next == Nullish(Lookup(pendingRole, u.user_id), current)
  IN Nullish(Lookup(saving, u.user_id), FALSE) \/ next = "" \/ next = current

\* a variant that adds roleName to the roles of userId
WithAddedRole(prev, userId, roleName) ==
  [n \in 1..Len(prev) |->
     IF prev[n].user_id = userId THEN [prev[n] EXCEPT !.roles = <<roleName>> \o @] ELSE prev[n]]

\* users.map with the roles of userId replaced by [roleName]
WithSingleRole(prev, userId, roleName) ==
  [n \in 1..Len(prev) |-> IF prev[n].user_id = userId THEN [prev[n] EXCEPT !.roles = <<roleName>>] ELSE prev[n]]

\* the click on Save in the row of users[n], up to the await
handleSaveRole(n) ==
  /\ clicks < MaxClicks /\ clicks' = clicks + 1
  /\ UsersTableShown
  /\ n \in 1..Len(users)
  /\ ~SaveDisabled(users[n])
  /\ LET userId == users[n].user_id
         roleName == Lookup(pendingRole, userId)
     IN IF FalsyStr(roleName)
          THEN /\ notice' = <<"Please select a role first">>
               /\ UNCHANGED <<saving, adminCalls>>
          ELSE /\ saving' = WithKey(saving, userId, TRUE)
               /\ adminCalls' = Append(adminCalls, AdminCall("handleSaveRole", "set_role", userId, roleName[1]))
               /\ notice' = <<>>
  /\ UNCHANGED <<inventoryVars, user_roles, all_user_roles, session, adminUserRoles, adminLoading,
                 users, pendingRole>>

\* SaveRoleDone reading the pending selection again after the await
SaveRoleDoneReadingPending(i, r) ==
  /\ adminCalls[i].pc = "set_role"
  /\ IF r.status = "ok"
       THEN /\ notice' = <<"Role updated">>
            /\ users' = WithSingleRole(users, adminCalls[i].userId, pendingRole[adminCalls[i].userId])
       ELSE /\ notice' = <<"Failed to update role">>
            /\ UNCHANGED users
  /\ saving' = WithKey(saving, adminCalls[i].userId, FALSE)
  /\ adminCalls' = RemoveAt(adminCalls, i)
  /\ UNCHANGED <<inventoryVars, user_roles, all_user_roles, session, clicks, adminUserRoles,
                 adminLoading, pendingRole>>

\* handleSaveRole after the rpc resolved (an { error } is thrown into the catch)
SaveRoleDone(i, r) ==
  /\ adminCalls[i].pc = "set_role"
  /\ IF r.status = "ok"
       THEN /\ notice' = <<"Role updated">>
            /\ users' = WithSingleRole(users, adminCalls[i].userId, adminCalls[i].roleName)
       ELSE /\ notice' = <<"Failed to update role">>
            /\ UNCHANGED users
  /\ saving' = WithKey(saving, adminCalls[i].userId, FALSE)
  /\ adminCalls' = RemoveAt(adminCalls, i)
  /\ UNCHANGED <<inventoryVars, user_roles, all_user_roles, session, clicks, adminUserRoles,
                 adminLoading, pendingRole>>

\* the session context hands the page another session (sign-in, sign-out or a
\* refreshed token; counted with the clicks): the effect on [session] runs
\* fetchViewerRoles again
AdminSessionChanges(s) ==
  /\ clicks < MaxClicks /\ clicks' = clicks + 1
  /\ session' = s
  /\ IF s = None
       THEN /\ adminUserRoles' = {}
            /\ LoadUsersEffect({}, adminCalls)
       ELSE /\ adminCalls' = Append(adminCalls, AdminCall("fetchViewerRoles", "user_roles", "", ""))
            /\ UNCHANGED <<adminUserRoles, adminLoading>>
  /\ notice' = <<>>
  /\ UNCHANGED <<inventoryVars, user_roles, all_user_roles, users, pendingRole, saving>>

\* AdminUsersPage after mount, signed in: fetchViewerRoles is out; loadUsers
\* is not, isAdmin being false; MedicalSuppliesPage is not mounted
InitAdmin ==
  /\ medical_supplies = <<>>
  /\ nextId = 1
  /\ user_roles \in InitialUserRoles
  /\ now = 0
  /\ items = <<>>
  /\ loading = TRUE
  /\ selectedItem = None
  /\ isItemModalOpen = FALSE
  /\ isEditModalOpen = FALSE
  /\ isNewItemModalOpen = FALSE
  /\ editingItem = None
  /\ formData = EmptyForm
  /\ userRoles = {}
  /\ imageFile = None
  /\ uploadingImage = FALSE
  /\ calls = <<>>
  /\ clicks = 0
  /\ notice = <<>>
  /\ searchQuery = ""
  /\ expiredFilter = "all"
  /\ typeFilter = "all"
  /\ filteredItems = <<>>
  /\ crashed = FALSE
  /\ session = Some(ViewerId)
  /\ all_user_roles = Directory(user_roles)
  /\ adminUserRoles = {}
  /\ adminLoading = TRUE
  /\ users = <<>>
  /\ pendingRole = <<>>
  /\ saving = <<>>
  /\ adminCalls = << AdminCall("fetchViewerRoles", "user_roles", "", "") >>

NextAdmin ==
  \/ \E i \in AdminCallIndex : AdminSelectUserRoles(i)
  \/ \E i \in AdminCallIndex : AdminSelectRoles(i)
  \/ \E i \in AdminCallIndex : AdminListUsers(i)
  \/ \E i \in AdminCallIndex : AdminSetSingleRole(i)
  \/ \E i \in AdminCallIndex : \E r \in AdminResponses(i) : FetchViewerRolesIds(i, r)
  \/ \E i \in AdminCallIndex : \E r \in AdminResponses(i) : FetchViewerRolesNames(i, r)
  \/ \E i \in AdminCallIndex : \E r \in AdminResponses(i) : LoadUsersDone(i, r)
  \/ \E n \in 1..Len(users), roleName \in {"admin", "volunteer", "visitor"} : handleSelectRole(n, roleName)
  \/ \E n \in 1..Len(users) : handleSaveRole(n)
  \/ \E i \in AdminCallIndex : \E r \in AdminResponses(i) : SaveRoleDone(i, r)
  \/ \E s \in {None, Some(ViewerId)} : AdminSessionChanges(s)

SpecAdmin == InitAdmin /\ [][NextAdmin]_vars

(* ============================== properties ============================== *)

SaveErrorNotices ==
  { <<"Failed to update item">>, <<"Failed to create item">>, <<"Failed to save item">> }

\* the step in which a submit ends in failure: its insert or update returned
\* an error, or a call of the handler rejected and the catch ran
SaveFails(i, r) ==
  /\ calls[i].kind = "handleSaveItem"
  /\ calls[i].net = "req"
  /\ \/ SaveUpdateDone(i, r)
     \/ SaveInsertDone(i, r)
     \/ r.status = "throw" /\ SavePatchDone(i, r)

Incomplete(fd) ==
  \/ fd.name \in {None, Some("")}
  \/ fd.quantity \in {None, Some(0)}
  \/ fd.typeOfSupply \in {None, Some("")}
  \/ fd.expiresOn \in {None, Some("")}

\* C2: a click on Save with an incomplete draft is rejected with a notice: no
\* upload, insert or update is dispatched, the store is not touched, and items,
\* the draft and the dialogs are unchanged.
C2_IncompleteDraftIsRejected ==
  [][(handleSaveItem /\ Incomplete(formData)) =>
       /\ notice' = <<"Please fill in all required fields">>
       /\ UNCHANGED <<calls, medical_supplies, items, formData, editingItem, imageFile,
                      isItemModalOpen, isEditModalOpen, isNewItemModalOpen, uploadingImage>>]_vars

\* a rejected draft that is complete but for its quantity of 0, with every call
\* of the page resolved
C2_Witness ==
  /\ notice = <<"Please fill in all required fields">>
  /\ calls = <<>>
  /\ formData.name = Some("Mask")
  /\ formData.quantity = Some(0)
  /\ formData.typeOfSupply = Some("PPE")
  /\ formData.expiresOn = Some("2026-06-30")


\* a submit in create mode with a pending image
CreateWithImage(c) == c.kind = "handleSaveItem" /\ c.editingItem = None /\ c.imageFile # None

\* the storage key of an upload for the record `id`
KeyedBy(filePath, id, ext) == \E t \in 1..now : filePath = FilePath(Some(id), t, "", ext)

StoredRow(id) == CHOOSE row \in {medical_supplies[k] : k \in 1..Len(medical_supplies)} : row.id = id
IsStored(id) == \E k \in 1..Len(medical_supplies) : medical_supplies[k].id = id

\* where a create with image stands: the insert carries the placeholder; the
\* upload is out only for a row the insert returned, under a key made of that
\* row's id; the image_url update is out only with the URL of the uploaded
\* object
CreateWithImageInOrder ==
  \A i \in CallIndex :
    LET c == calls[i]
    IN CreateWithImage(c) =>
         /\ c.pc \in {"insert", "upload_new", "patch"}
         /\ c.pc = "insert" => c.imageUrl = LogoPng /\ c.newRow = None /\ c.uploadedUrl = None
         /\ c.pc \in {"upload_new", "patch"} =>
               /\ c.newRow # None
               /\ c.newRow[1].image_url = Some(LogoPng)
               /\ KeyedBy(c.filePath, c.newRow[1].id, c.imageFile[1].ext)
         /\ c.pc = "upload_new" => c.uploadedUrl = None
         /\ c.pc = "patch" => c.uploadedUrl = Some(PublicUrl(c.filePath)) /\ c.imageUrl = PublicUrl(c.filePath)

\* call i alone moves on to its next await in this step
MovesOn(i) ==
  /\ Len(calls') = Len(calls)
  /\ calls' = [calls EXCEPT ![i] = calls'[i]]
  /\ calls'[i].kind = calls[i].kind
  /\ calls'[i].pc # calls[i].pc

\* the upload is dispatched by the continuation of the insert that returned the
\* row, and the image_url update by the continuation of the upload
CreateWithImageStep ==
  \A i \in CallIndex :
    (CreateWithImage(calls[i]) /\ MovesOn(i)) =>
       \/ /\ calls[i].pc = "insert" /\ calls'[i].pc = "upload_new"
          /\ calls[i].net = "resp" /\ calls[i].resp.status = "ok" /\ calls[i].resp.rows # <<>>
          /\ calls'[i].newRow = Some(calls[i].resp.rows[1])
       \/ calls[i].pc = "upload_new" /\ calls'[i].pc = "patch"

\* the store processes the image_url update: the record has the uploaded URL
CreateWithImagePatches ==
  \A i \in CallIndex :
    (CreateWithImage(calls[i]) /\ PatchImage(i)) =>
       \A k \in 1..Len(medical_supplies') :
         medical_supplies'[k].id = calls[i].newRow[1].id =>
           medical_supplies'[k].image_url = Some(PublicUrl(calls[i].filePath))

\* the three steps succeeded: the entry put in front has the uploaded URL
CreateWithImageEnds ==
  \A i \in CallIndex :
    (CreateWithImage(calls[i]) /\ calls[i].net = "resp" /\ SavePatchDone(i, calls[i].resp)) =>
       /\ Len(items') = Len(items) + 1
       /\ SubSeq(items', 2, Len(items')) = items
       /\ items'[1].id = calls[i].newRow[1].id
       /\ items'[1].imageUrl = PublicUrl(calls[i].filePath)

CreatedWithoutImage(i) ==
  /\ calls[i].kind = "handleSaveItem" /\ calls[i].editingItem = None /\ calls[i].imageFile = None
  /\ calls[i].net = "resp"
  /\ SaveInsertDone(i, calls[i].resp)

\* items gains one entry, in front, with the placeholder
AddsOneInFront ==
  /\ Len(items') = Len(items) + 1
  /\ SubSeq(items', 2, Len(items')) = items
  /\ items'[1].imageUrl = LogoPng

EditWithImage(c) == c.kind = "handleSaveItem" /\ c.editingItem # None /\ c.imageFile # None

\* the update of a submit resumes with the store's answer
UpdateSucceeds(i) ==
  /\ calls[i].kind = "handleSaveItem" /\ calls[i].pc = "update"
  /\ calls[i].net = "resp"
  /\ SaveUpdateDone(i, calls[i].resp)

\* the required fields of the entries with the edited id are the draft's
DraftApplied(c) ==
  \A k \in 1..Len(items) :
    items[k].id = c.editingItem[1].id =>
      /\ items'[k].name = c.formData.name
      /\ items'[k].quantity = c.formData.quantity[1]
      /\ items'[k].typeOfSupply = c.formData.typeOfSupply[1]
      /\ items'[k].expiresOn = c.formData.expiresOn[1]

\* the entries with the edited id have this imageUrl after the step
ImageAfter(c, url) ==
  \A k \in 1..Len(items) : items[k].id = c.editingItem[1].id => items'[k].imageUrl = url

\* C5: in edit mode with a pending image whose upload fails, the update is
\* still issued, with image_url the item's imageUrl from before the edit, and
\* when it succeeds the local entry keeps that imageUrl while name, quantity,
\* typeOfSupply and expiresOn are the edited ones.
C5_FailedUploadKeepsImage ==
  [][\A i \in CallIndex :
       LET c == calls[i]
       IN EditWithImage(c) =>
            /\ (c.pc = "upload_edit" /\ SaveEditUploadDone(i, FALSE)) =>
                  /\ calls'[i].pc = "update" /\ calls'[i].net = "req"
                  /\ calls'[i].uploadedUrl = None
                  /\ DatabaseData(calls'[i].formData, calls'[i].imageUrl).image_url
                       = Some(c.editingItem[1].imageUrl)
            /\ (c.uploadedUrl = None /\ UpdateSucceeds(i)) =>
                  /\ c.imageUrl = c.editingItem[1].imageUrl
                  /\ ImageAfter(c, c.editingItem[1].imageUrl)
                  /\ DraftApplied(c)]_vars

\* the upload of an edit of item 1 failed, the update went out and the store
\* answered with the row: renamed, its image the one from before the edit
C5_Witness ==
  \E i \in CallIndex :
    /\ EditWithImage(calls[i])
    /\ calls[i].pc = "update" /\ calls[i].net = "resp"
    /\ calls[i].uploadedUrl = None
    /\ calls[i].editingItem[1].id = 1
    /\ calls[i].editingItem[1].imageUrl # LogoPng
    /\ calls[i].resp.rows # <<>>
    /\ calls[i].resp.rows[1].name = Some("Mask")
    /\ calls[i].resp.rows[1].image_url = Some(calls[i].editingItem[1].imageUrl)

\* C6: in edit mode with a pending image the upload, keyed by the item's id,
\* resolves before the update is dispatched; when it succeeded the update
\* carries the uploaded URL as image_url, and after the update succeeds the
\* local entry with that id has the uploaded URL, whether or not the store
\* returned the updated row.
C6_UploadedImageReachesEntry ==
  [][\A i \in CallIndex :
       LET c == calls[i]
       IN EditWithImage(c) =>
            /\ c.pc \in {"upload_edit", "update"}
            /\ c.pc = "upload_edit" => KeyedBy(c.filePath, c.editingItem[1].id, c.imageFile[1].ext)
            /\ MovesOn(i) => c.pc = "upload_edit" /\ calls'[i].pc = "update"
            /\ (c.pc = "update" /\ c.uploadedUrl # None) =>
                  /\ c.uploadedUrl = Some(PublicUrl(c.filePath))
                  /\ DatabaseData(c.formData, c.imageUrl).image_url = c.uploadedUrl
            /\ (c.uploadedUrl # None /\ UpdateSucceeds(i)) => ImageAfter(c, c.uploadedUrl[1])]_vars

\* C7: a successful update leaves the length of items, the order of the ids
\* and every entry with another id as they were; if no entry has the edited
\* id (deleted while the update was in flight) items is unchanged.
C7_UpdateTouchesOneEntry ==
  [][\A i \in CallIndex :
       UpdateSucceeds(i) =>
         LET id == calls[i].editingItem[1].id
         IN /\ Len(items') = Len(items)
            /\ \A k \in 1..Len(items) :
                  /\ items'[k].id = items[k].id
                  /\ items[k].id # id => items'[k] = items[k]
            /\ id \notin Ids(items) => items' = items]_vars

\* item 1 of two was just renamed by an update; item 2 is as it was fetched
C7_Witness ==
  /\ notice = <<"Item updated successfully!">>
  /\ Len(items) = 2
  /\ items[1].id = 1
  /\ items[1].name = Some("Mask")
  /\ items[2] = ToViewModelFetch(SparseRow(2))

\* C8: the delete's continuation removes from items exactly the entries with
\* the selected item's id, and only on the store's success (the row is gone);
\* when the delete returned an error or threw, and in the click itself (with
\* or without a selection), items, selectedItem and the detail dialog stay.
C8_DeleteRemovesSelectedOnSuccess ==
  [][/\ \A i \in CallIndex :
          LET id == calls[i].selectedItem[1].id
          IN /\ (calls[i].net = "resp" /\ DeleteDone(i, calls[i].resp)) =>
                   /\ calls[i].resp.status = "ok"
                   /\ ~IsStored(id)
                   /\ items' = SelectSeq(items, LAMBDA e : e.id # id)
             /\ (calls[i].net = "req" /\ \E r \in Failures : DeleteDone(i, r)) =>
                   /\ UNCHANGED <<items, selectedItem, isItemModalOpen>>
                   /\ notice' = <<"Failed to delete item">>
     /\ handleDeleteItem =>
          /\ UNCHANGED <<items, selectedItem, isItemModalOpen>>
          /\ selectedItem = None => UNCHANGED calls]_vars

\* item 1 of two was just deleted: gone from items and from the store, item 2
\* still there, the detail dialog closed
C8_Witness ==
  /\ notice = <<"Item deleted successfully!">>
  /\ Len(items) = 1
  /\ items[1].id = 2
  /\ ~IsStored(1) /\ IsStored(2)
  /\ selectedItem = None /\ ~isItemModalOpen

\* the handler's select, insert, update or delete has resolved successfully
ResolvedWell(c) ==
  \/ c.pc \in {"select", "insert", "update", "delete"} /\ c.net = "resp" /\ c.resp.status = "ok"
  \/ c.pc \in {"upload_new", "patch"} /\ c.newRow # None

\* C9: items changes only in a step that ends a handler whose select, insert,
\* update or delete has resolved successfully: never in a click, never while
\* the call is out, never on a failure.
C9_ItemsChangeAfterSuccess ==
  [][items' # items =>
       \E i \in CallIndex : ResolvedWell(calls[i]) /\ calls' = RemoveAt(calls, i)]_vars

\* a create with image whose upload failed just ended: the inserted record is
\* in front with the placeholder
C9_Witness ==
  /\ notice = <<"Failed to upload image", "Item created successfully!">>
  /\ items # <<>>
  /\ IsStored(items[1].id)
  /\ items[1].imageUrl = LogoPng

\* items holds exactly the records of the store, field by field
ItemsMirrorStore ==
  /\ Len(items) = Len(medical_supplies)
  /\ {items[k] : k \in 1..Len(items)}
       = {ToViewModelFetch(medical_supplies[k]) : k \in 1..Len(medical_supplies)}

\* C10: whenever no remote call is outstanding, items holds exactly the records
\* of the store: the same ids and for each id the same field values, the image
\* reference included.
C10_ItemsMirrorStoreAtRest == calls = <<>> => ItemsMirrorStore

(* ----------------------------- C16: the image ---------------------------- *)

\* the declared media type begins with "image/"
DeclaresImage(file) == Len(file.type) >= 6 /\ SubSeq(file.type, 1, 6) = <<"i", "m", "a", "g", "e", "/">>

\* C16: a chosen file becomes the pending image only if its media type starts
\* with "image/" and its size is at most 5 * 1024 * 1024 bytes; a file turned
\* down raises a notice, dispatches no call, touches nothing in the store and
\* leaves the pending image as it was.
C16_OnlySmallImagesArePending ==
  [][\A file \in FileInputs :
       handleImageChange(file) =>
         IF DeclaresImage(file) /\ file.size <= 5 * 1024 * 1024
           THEN imageFile' = Some(file) /\ notice' = <<>>
           ELSE /\ notice' \in { <<"Please select an image file">>, <<"Image size must be less than 5MB">> }
                /\ UNCHANGED <<imageFile, calls, medical_supplies, nextId, formData, items>>]_vars

\* an image of exactly 5 MiB is pending, and the larger file chosen after it
\* has just been turned down
C16_Witness ==
  /\ imageFile # None
  /\ imageFile[1].size = 5 * 1024 * 1024
  /\ notice = <<"Image size must be less than 5MB">>


(* ----------------------- C20: defaults of a conversion ------------------ *)

\* the local item carries, for each column the row leaves null, the documented
\* default: name "", quantity 0, expiresOn "2025-12-31", imageUrl '/logo.png',
\* isExpired false, any other text "" and any other number 0
HasDocumentedDefaults(item, row) ==
  /\ item.id = row.id
  /\ item.name = Some(OrStr(row.name, ""))
  /\ item.quantity = OrNum(row.quantity, 0)
  /\ item.expiresOn = OrStr(row.expires_on, "2025-12-31")
  /\ item.imageUrl = OrStr(row.image_url, "/logo.png")
  /\ item.isExpired = OrBool(row.is_expired, FALSE)
  /\ item.description = OrStr(row.description, "")
  /\ item.typeOfSupply = OrStr(row.type_of_supply, "")
  /\ item.unitsPerBox = OrNum(row.units_per_box, 0)

\* the fetch resumes with the rows the store returned
FetchSucceeds(i) ==
  /\ calls[i].pc = "select" /\ calls[i].net = "resp"
  /\ FetchItemsDone(i, calls[i].resp)

\* C20: each conversion of a stored row into a local item (on fetch, on the
\* update response, on the insert response) yields the documented default for
\* every column the row leaves null.
C20_ConversionsUseDocumentedDefaults ==
  [][\A i \in CallIndex :
       /\ FetchSucceeds(i) =>
             /\ Len(items') = Len(calls[i].resp.rows)
             /\ \A k \in 1..Len(items') : HasDocumentedDefaults(items'[k], calls[i].resp.rows[k])
       /\ (UpdateSucceeds(i) /\ calls[i].resp.rows # <<>>) =>
             \A k \in 1..Len(items') :
               items'[k].id = calls[i].resp.rows[1].id =>
                 HasDocumentedDefaults(items'[k], calls[i].resp.rows[1])
       /\ (CreatedWithoutImage(i) /\ calls[i].resp.rows # <<>>) =>
             HasDocumentedDefaults(items'[1], calls[i].resp.rows[1])]_vars


(* --------------------------- C17-C19: the filter ------------------------ *)

\* the text of an item's name, "" standing for an absent one
NameText(item) == IF item.name = None THEN "" ELSE item.name[1]

\* the query is blank, or is found, letter case aside, in the name or the type
TextMatch(item) ==
  \/ \A n \in 1..Len(searchQuery) : SubSeq(searchQuery, n, n) = " "
  \/ Includes(ToLowerCase(NameText(item)), ToLowerCase(searchQuery))
  \/ Includes(ToLowerCase(item.typeOfSupply), ToLowerCase(searchQuery))

ExpiryMatch(item) ==
  CASE expiredFilter = "all" -> TRUE
    [] expiredFilter = "expired" -> item.isExpired = TRUE
    [] expiredFilter = "not-expired" -> item.isExpired = FALSE

CategoryMatch(item) == typeFilter = "all" \/ item.typeOfSupply = typeFilter

\* the positions of items that a predicate selects, and the list they make
Selected(Keep(_)) == {k \in 1..Len(items) : Keep(items[k])}
NthOf(positions, n) == CHOOSE k \in positions : Cardinality({j \in positions : j < k}) = n - 1
ListOf(positions) == [n \in 1..Cardinality(positions) |-> items[NthOf(positions, n)]]

MatchAllThree(item) == TextMatch(item) /\ ExpiryMatch(item) /\ CategoryMatch(item)

\* C17: the filtered list is the items that satisfy the text, the expiry and
\* the category predicate together, in the order they have in items; with an
\* empty query and both filters on 'all' it is items itself.
C17_FilteredIsTheMatchingSubsequence ==
  /\ filteredItems = ListOf(Selected(MatchAllThree))
  /\ (searchQuery = "" /\ expiredFilter = "all" /\ typeFilter = "all") => filteredItems = items

\* C18: with the other two filters on 'all', an item is listed if and only if
\* the query is empty or blank, or is, letter case aside, a part of the item's
\* name or of its typeOfSupply.
C18_TextPredicate ==
  (expiredFilter = "all" /\ typeFilter = "all") =>
     \A k \in 1..Len(items) :
       (\E n \in 1..Len(filteredItems) : filteredItems[n].id = items[k].id) <=> TextMatch(items[k])

Listed(item) == \E n \in 1..Len(filteredItems) : filteredItems[n] = item

\* the same item but for the id and the expiry date
DifferInExpiresOnOnly(a, b) ==
  a.expiresOn # b.expiresOn /\ [a EXCEPT !.id = b.id, !.expiresOn = b.expiresOn] = b

\* C19: with a blank query and the type filter on 'all', 'expired' lists
\* exactly the items whose isExpired is true, 'not-expired' exactly those whose
\* isExpired is false and 'all' every item; and whatever the filters, two items
\* that differ in expiresOn only are both listed or both left out.
C19_ExpiryFollowsTheFlag ==
  /\ (Trim(searchQuery) = "" /\ typeFilter = "all") =>
        \A k \in 1..Len(items) :
          Listed(items[k]) <=> CASE expiredFilter = "expired" -> items[k].isExpired
                                 [] expiredFilter = "not-expired" -> ~items[k].isExpired
                                 [] OTHER -> TRUE
  /\ \A j, k \in 1..Len(items) :
        DifferInExpiresOnOnly(items[j], items[k]) => (Listed(items[j]) <=> Listed(items[k]))

\* 'not-expired' lists the two masks, one of them past its date, and leaves
\* the expired gauze out
C19_Witness ==
  /\ expiredFilter = "not-expired"
  /\ Len(items) = 3
  /\ Len(filteredItems) = 2
  /\ DifferInExpiresOnOnly(filteredItems[1], filteredItems[2])
  /\ \E k \in 1..3 : items[k].isExpired /\ items[k].expiresOn = filteredItems[2].expiresOn


(* ----------------------------- C11: the roles --------------------------- *)

\* what a call may resume with in this step
Outcomes(i) == Failures \cup {calls[i].resp}

\* the role names behind a set of role ids
NamesOfIds(roleIds) == {RolesCatalog[id] : id \in roleIds}

\* the role set is empty and neither flag is set
NoRoles == userRoles = {} /\ ~canManage /\ ~isAdmin

\* C11: canManage is true exactly when the fetched role names include 'admin'
\* or 'volunteer' and isAdmin exactly when they include 'admin'; when the
\* user_roles query or the roles query returns an error or throws, when no
\* role id comes back, and when the session has no user id, the role set
\* becomes empty and both flags are false.
C11_RolesFailClosed ==
  [][/\ \A i \in CallIndex : \A r \in Outcomes(i) :
          /\ (FetchUserRolesIds(i, r) /\ (r.status # "ok" \/ r.rows = {})) => NoRoles'
          /\ (FetchUserRolesNames(i, r) /\ r.status # "ok") => NoRoles'
          /\ (FetchUserRolesNames(i, r) /\ r.status = "ok") =>
                /\ userRoles' = NamesOfIds(calls[i].roleIds)
                /\ canManage' <=> (1 \in calls[i].roleIds \/ 2 \in calls[i].roleIds)
                /\ isAdmin' <=> 1 \in calls[i].roleIds
     /\ SessionChanges(None) => (NoRoles' /\ UNCHANGED calls)]_vars

\* the user is signed in and bound to admin and volunteer, the session has
\* changed, no role query is out, and the role set is empty: the last
\* fetchUserRoles failed
C11_Witness ==
  /\ session # None
  /\ clicks > 0
  /\ user_roles = {1, 2}
  /\ \A i \in CallIndex : calls[i].kind # "fetchUserRoles"
  /\ NoRoles


(* --------------------------- C12: the role gate ------------------------- *)

\* the awaits that write to the store or upload an image
MutatingPcs == {"insert", "update", "patch", "delete", "upload_edit", "upload_new"}

\* this step sends an insert, update, delete or upload request
DispatchesMutation ==
  \E i \in 1..Len(calls') :
    /\ calls'[i].pc \in MutatingPcs
    /\ calls'[i].net = "req"
    /\ \A j \in CallIndex : calls[j] # calls'[i]

\* C12: no insert, update, delete or image upload is dispatched in a state
\* where canManage is false, and in such a state neither the edit dialog nor
\* the new-item dialog opens, whatever changes of session and of roles came
\* before.
C12_NoMutationWithoutCanManage ==
  [][~canManage =>
       /\ ~DispatchesMutation
       /\ isEditModalOpen' => isEditModalOpen
       /\ isNewItemModalOpen' => isNewItemModalOpen]_vars

(* ------------------------------------------------------------------------ *)
(* C15: the current role shown for every listed user is admin when that     *)
(* user's role set contains admin, otherwise volunteer when it contains     *)
(* volunteer, otherwise visitor when it contains visitor, otherwise none;   *)
(* two users with the same role set, and a user's roles read in the other   *)
(* order, have the same current role.                                       *)
(* ------------------------------------------------------------------------ *)
RoleSetOf(row) == {row.roles[n] : n \in 1..Len(row.roles)}

PrecedenceWinner(roleSet) ==
  CASE "admin" \in roleSet -> "admin"
    [] "admin" \notin roleSet /\ "volunteer" \in roleSet -> "volunteer"
    [] {"admin", "volunteer"} \cap roleSet = {} /\ "visitor" \in roleSet -> "visitor"
    [] {"admin", "volunteer", "visitor"} \cap roleSet = {} -> ""

ReadBackwards(row) ==
  [row EXCEPT !.roles = [n \in 1..Len(row.roles) |-> row.roles[Len(row.roles) + 1 - n]]]

C15_CurrentRoleFollowsPrecedence ==
  \A n \in 1..Len(users) :
    /\ currentRoleOf(users[n]) = PrecedenceWinner(RoleSetOf(users[n]))
    /\ currentRoleOf(ReadBackwards(users[n])) = currentRoleOf(users[n])
    /\ \A m \in 1..Len(users) :
         RoleSetOf(users[m]) = RoleSetOf(users[n]) => currentRoleOf(users[m]) = currentRoleOf(users[n])

\* the table lists two users holding the same two roles in opposite orders, a
\* volunteer who is also a visitor and a user without roles
C15_Witness ==
  /\ UsersTableShown
  /\ \E n, m \in 1..Len(users) :
       /\ users[n].roles = <<"admin", "volunteer">>
       /\ users[m].roles = <<"volunteer", "admin">>
  /\ \E n \in 1..Len(users) : users[n].roles = <<"visitor", "volunteer">>
  /\ \E n \in 1..Len(users) : users[n].roles = <<>>

(* ------------------------------------------------------------------------ *)
(* C14: handleSaveRole sends the role pending for that user; when its       *)
(* admin_set_single_role call succeeds, the local roles of that user become *)
(* that one role and every other row stays as it was; when the call fails,  *)
(* every row stays as it was.                                               *)
(* ------------------------------------------------------------------------ *)
\* handleSaveRole's invocation i resumes in this step
SaveRoleResumes(i) ==
  /\ adminCalls[i].pc = "set_role"
  /\ adminCalls' = RemoveAt(adminCalls, i)

\* handleSaveRole dispatches its call in this step
SaveRoleDispatched ==
  /\ Len(adminCalls') = Len(adminCalls) + 1
  /\ adminCalls'[Len(adminCalls')].pc = "set_role"

RolesAfterSave(i, row) ==
  IF row.user_id = adminCalls[i].userId THEN <<adminCalls[i].roleName>> ELSE row.roles

C14_SaveReplacesTheRoleSet ==
  [][ /\ SaveRoleDispatched =>
           LET call == adminCalls'[Len(adminCalls')]
           IN pendingRole[call.userId] = call.roleName
      /\ \A i \in AdminCallIndex :
           SaveRoleResumes(i) =>
             IF adminCalls[i].net = "resp" /\ adminCalls[i].resp.status = "ok"
               THEN /\ Len(users') = Len(users)
                    /\ \A n \in 1..Len(users) :
                         users'[n] = [users[n] EXCEPT !.roles = RolesAfterSave(i, users[n])]
               ELSE users' = users ]_vars

\* the save of visitor for the user listed with volunteer and admin has
\* succeeded
C14_Witness ==
  /\ notice = <<"Role updated">>
  /\ all_user_roles["u2"] = <<"visitor">>
  /\ \E n \in 1..Len(users) : users[n].user_id = "u2" /\ users[n].roles = <<"visitor">>
  /\ \E n \in 1..Len(users) : users[n].user_id = "u3" /\ users[n].roles = <<"visitor", "volunteer">>

(* ------------------------------------------------------------------------ *)
(* C13: AdminUsersPage sends admin_list_users_with_roles only when the      *)
(* viewer's fetched roles include admin; while they do not, no role is      *)
(* selected for any user and no admin_set_single_role call is sent.         *)
(* ------------------------------------------------------------------------ *)
\* a call at pc is sent in this step
AdminDispatches(pc) ==
  /\ Len(adminCalls') = Len(adminCalls) + 1
  /\ adminCalls'[Len(adminCalls')].pc = pc

C13_AdminPageIsGated ==
  [][ /\ AdminDispatches("list_users") => "admin" \in adminUserRoles'
      /\ ~adminIsAdmin => /\ ~AdminDispatches("set_role")
                          /\ pendingRole' = pendingRole
                          /\ saving' = saving \/ \E i \in AdminCallIndex : SaveRoleResumes(i) ]_vars

\* the signed-in viewer is no longer an admin after the user list was loaded
C13_Witness ==
  /\ session # None
  /\ ~adminIsAdmin
  /\ ~adminLoading
  /\ users # <<>>
  /\ clicks < MaxClicks

(* ------------------------------------------------------------------------ *)
(* C21: reading a stored row into an item, writing that item back as a row  *)
(* through the edit draft, and reading the row again gives the same item,   *)
(* for every row the store comes to hold and every item the list comes to   *)
(* show.                                                                    *)
(* ------------------------------------------------------------------------ *)
\* the row handleSaveItem writes for the draft openEditModal makes of an item
ToStorageRow(item) ==
  LET fd == FormOfItem(item)
  IN RowOf(item.id, DatabaseData(fd, DraftImageUrl(fd)))

\* the written row read back by fetchItems, by the update branch and by the
\* create branch of handleSaveItem
ItemStable(item) ==
  LET written == ToStorageRow(item)
  IN /\ ToViewModelFetch(written) = item
     /\ UpdatedItemFromRow(written) = item
     /\ NewItemFromRow(written, FinalImageUrl(written)) = item

RoundTripStable(row) == ItemStable(ToViewModelFetch(row))

\* entry k of the sequence after the step is new or has changed
Touched(before, after, k) == k > Len(before) \/ after[k] # before[k]

C21_RoundTripIsStable ==
  [][ /\ medical_supplies' # medical_supplies =>
           \A k \in 1..Len(medical_supplies') :
              Touched(medical_supplies, medical_supplies', k) => RoundTripStable(medical_supplies'[k])
      /\ items' # items =>
           \A k \in 1..Len(items') :
              Touched(items, items', k) => ItemStable(items'[k]) ]_vars

\* the list shows a row of nulls, read with the defaults, and the store also
\* holds a row this page wrote
C21_Witness ==
  /\ \E k \in 1..Len(medical_supplies) : medical_supplies[k] = SparseRow(2)
  /\ \E k \in 1..Len(items) : items[k] = ToViewModelFetch(SparseRow(2))
  /\ \E k \in 1..Len(medical_supplies) : medical_supplies[k].id = 3

(* ------------------------------------------------------------------------ *)
(* C22: when a save ends, every entry of the list other than the saved      *)
(* record's stays as it was, and a form that is open on another draft than  *)
(* the submitted one (opened after the submitted one was dismissed) stays    *)
(* open with its draft, its editing target and its pending image.           *)
(* ------------------------------------------------------------------------ *)
\* handleSaveItem's invocation i returns in this step (fetchItems may be
\* started on its way out)
SaveEnds(i) ==
  /\ calls[i].kind = "handleSaveItem"
  /\ \/ calls' = RemoveAt(calls, i)
     \/ calls' = Append(RemoveAt(calls, i), FetchItemsCall)

\* the entries that are not the saved record's are as they were
OtherEntriesKept(c) ==
  IF c.editingItem # None
    THEN /\ Len(items') = Len(items)
         /\ \A k \in 1..Len(items) : items[k].id # c.editingItem[1].id => items'[k] = items[k]
    ELSE items' = items \/ (items' # <<>> /\ Tail(items') = items)

\* a form is open, and not on what c submitted: on another editing target, or
\* on the blank draft openNewItemModal makes
AnotherDraftOpen(c) ==
  /\ isEditModalOpen \/ isNewItemModalOpen
  /\ editingItem # c.editingItem \/ formData = NewItemForm

C22_LateSaveLeavesNewDraftAlone ==
  [][ \A i \in CallIndex :
        SaveEnds(i) =>
          /\ OtherEntriesKept(calls[i])
          /\ AnotherDraftOpen(calls[i]) => UNCHANGED <<modalVars, draftVars>> ]_vars

(* ------------------------------------------------------------------------ *)
(* C23: at any time at most one submit of handleSaveItem is outstanding,    *)
(* and for each user at most one call of handleSaveRole.                    *)
(* ------------------------------------------------------------------------ *)
OutstandingSaves == {i \in CallIndex : calls[i].kind = "handleSaveItem"}

OutstandingRoleSaves(userId) ==
  {i \in AdminCallIndex : adminCalls[i].kind = "handleSaveRole" /\ adminCalls[i].userId = userId}

C23_OneSubmitOutstanding ==
  /\ Cardinality(OutstandingSaves) <= 1
  /\ \A userId \in DOMAIN all_user_roles : Cardinality(OutstandingRoleSaves(userId)) <= 1

(* ------------------------------------------------------------------------ *)
(* C24: a remote call is sent only on a click or when the invocation that   *)
(* sends it has come back from the call before it, so no call is sent again *)
(* after it failed; handleSaveRole sends admin_set_single_role and nothing  *)
(* else, once, with the role pending for that user.                         *)
(* ------------------------------------------------------------------------ *)
\* the calls of a page that wait at pc, and those of them not yet answered
AtPc(cs, pc) == {i \in 1..Len(cs) : cs[i].pc = pc}
Requested(cs, pc) == {i \in AtPc(cs, pc) : cs[i].net = "req"}

\* the call an invocation sends after it has come back from the call at pc
SentAfter ==
  [ upload_edit |-> {"update"}, insert |-> {"upload_new", "select"}, upload_new |-> {"patch"},
    user_roles |-> {"roles"}, roles |-> {"list_users"},
    update |-> {}, patch |-> {}, select |-> {}, delete |-> {}, list_users |-> {}, set_role |-> {} ]

\* a request at pc is sent in this step, which is a click or in which an
\* invocation comes back from the call before pc
SentOnlyInTurn(cs, after, pc) ==
  Cardinality(Requested(after, pc)) > Cardinality(Requested(cs, pc)) =>
    /\ Cardinality(Requested(after, pc)) = Cardinality(Requested(cs, pc)) + 1
    /\ \/ clicks' = clicks + 1
       \/ \E before \in DOMAIN SentAfter :
            /\ pc \in SentAfter[before]
            /\ Cardinality(AtPc(after, before)) < Cardinality(AtPc(cs, before))

\* the notices of a failed call, with the calls they may be about
FailedAt ==
  [ n \in { "Failed to load medical supplies: error", "Failed to load medical supplies",
            "Failed to upload image", "Failed to update item", "Failed to create item",
            "Failed to save item", "Failed to delete item", "Failed to update role",
            "Failed to load users" } |->
      CASE n \in {"Failed to load medical supplies: error", "Failed to load medical supplies"} -> {"select"}
        [] n = "Failed to upload image" -> {"upload_edit", "upload_new"}
        [] n = "Failed to update item" -> {"update"}
        [] n = "Failed to create item" -> {"insert"}
        [] n = "Failed to save item" -> {"update", "insert", "patch"}
        [] n = "Failed to delete item" -> {"delete"}
        [] n = "Failed to update role" -> {"set_role"}
        [] n = "Failed to load users" -> {"list_users"} ]

\* the step that raises the notice of a failed call takes that call out of
\* flight and sends no other than the one that follows it
FailedCallIsOver(cs, after) ==
  (notice' # <<>> /\ notice'[1] \in DOMAIN FailedAt /\ after # cs) =>
    \E pc \in FailedAt[notice'[1]] :
      /\ Cardinality(AtPc(after, pc)) = Cardinality(AtPc(cs, pc)) - 1
      /\ \A other \in DOMAIN SentAfter \ ({pc} \cup SentAfter[pc]) :
           Cardinality(AtPc(after, other)) <= Cardinality(AtPc(cs, other))

\* what C24 asks of the calls of one page in a step that changes them
InTurnAndOver(cs, after) ==
  after # cs =>
    /\ \A i \in 1..Len(after) : SentOnlyInTurn(cs, after, after[i].pc)
    /\ FailedCallIsOver(cs, after)

FetchEnds(i) ==
  /\ calls[i].kind = "fetchItems"
  /\ calls' = RemoveAt(calls, i)

FetchFailureNotices ==
  { <<"Failed to load medical supplies: error">>, <<"Failed to load medical supplies">> }

C25_FetchItemsOutcomes ==
  [][ \A i \in CallIndex :
        FetchEnds(i) =>
          /\ loading' = FALSE
          /\ IF calls[i].net = "req"
               THEN items' = items /\ notice' \in FetchFailureNotices
               ELSE /\ notice' = <<>>
                    /\ calls[i].resp.rows = <<>> => items' = <<>> ]_vars

\* a refetch has failed over a loaded list: the rows are still shown
C25_Witness ==
  /\ notice \in FetchFailureNotices
  /\ ~loading
  /\ items # <<>>
  /\ calls = <<>>

(* ------------------------------------------------------------------------ *)
(* C26: after every step the filtered list is the filter of the items, the  *)
(* query and the two selects as they then are, whatever the order in which  *)
(* they were set; it changes only in a step that changes one of them, and   *)
(* setting a filter input changes nothing else of the page's data.          *)
(* ------------------------------------------------------------------------ *)
FilterInputs == <<items, searchQuery, expiredFilter, typeFilter>>

C26_FilteredListIsRecomputed ==
  [][ /\ filteredItems' = ListOf(Selected(MatchAllThree))'
      /\ FilterInputs' = FilterInputs => filteredItems' = filteredItems
      /\ filterVars' # filterVars =>
           UNCHANGED <<storeVars, items, selectedItem, modalVars, draftVars, userRoles, calls>> ]_vars

(* ------------------------------------------------------------------------ *)
(* C27: the list never holds two entries with the same id (the store gives  *)
(* every inserted row an id of its own).                                    *)
(* ------------------------------------------------------------------------ *)
C27_NoDuplicateIds ==
  \A k, m \in 1..Len(items) : items[k].id = items[m].id => k = m

(* ------------------------------------------------------------------------ *)
(* C28: once no role fetch is out, the roles the page gates on are roles    *)
(* bound to the user of the present session, or none: an answer to the      *)
(* fetch of an earlier session does not replace them.                       *)
(* ------------------------------------------------------------------------ *)
RoleFetchOut == \E i \in CallIndex : calls[i].kind = "fetchUserRoles"

\* the role sets a user is bound to in some run: the signed-in user's bindings
\* may be rewritten, the others' are not
RoleSetsOf(userId) ==
  IF userId = ViewerId
    THEN {NamesOfIds(roleIds) : roleIds \in InitialUserRoles}
    ELSE {{all_user_roles[userId][n] : n \in 1..Len(all_user_roles[userId])}}

C28_RolesAreOfTheLatestSession ==
  (session # None /\ ~RoleFetchOut) =>
     userRoles = {} \/ userRoles \in RoleSetsOf(session[1])

(* ------------------------------------------------------------------------ *)
(* C29: when a role save returns, the pending selections are as they were   *)
(* and the user's saving flag is false; after a success the user's row      *)
(* shows the role that was sent, also when another role has been selected   *)
(* for that user since.                                                     *)
(* ------------------------------------------------------------------------ *)
RowsOf(rows, userId) == {n \in 1..Len(rows) : rows[n].user_id = userId}

C29_SaveUsesTheRoleItSent ==
  [][ /\ SaveRoleDispatched => pendingRole' = pendingRole
      /\ \A i \in AdminCallIndex :
           SaveRoleResumes(i) =>
             LET call == adminCalls[i]
             IN /\ pendingRole' = pendingRole
                /\ Lookup(saving', call.userId) = Some(FALSE)
                /\ (call.net = "resp" /\ call.resp.status = "ok") =>
                     \A n \in RowsOf(users', call.userId) : users'[n].roles = <<call.roleName>> ]_vars

\* visitor was saved for a user while volunteer was already selected for them
C29_Witness ==
  /\ notice = <<"Role updated">>
  /\ Lookup(pendingRole, "u2") = Some("volunteer")
  /\ Lookup(saving, "u2") = Some(FALSE)
  /\ \A n \in RowsOf(users, "u2") : users[n].roles = <<"visitor">>
  /\ RowsOf(users, "u2") # {}

(* ------------------------------------------------------------------------ *)
(* C30: when the upload of a create with a pending image fails, the submit  *)
(* ends there as a success: no patch is sent, the inserted row stays in the *)
(* store with the placeholder image, the record is put in front of the list *)
(* with imageUrl '/logo.png', both form dialogs are closed and the draft,   *)
(* the editing target and the pending image are reset.  The step itself     *)
(* leaves the store as it is: the row is there unless a delete confirmed    *)
(* by the user took it out while the create was in flight.                  *)
(* ------------------------------------------------------------------------ *)
\* the create of invocation i ends on its failed upload in this step
CreateUploadFails(i) ==
  /\ calls[i].pc = "upload_new"
  /\ calls' = RemoveAt(calls, i)

C30_FailedUploadStillCreates ==
  [][ \A i \in CallIndex :
        CreateUploadFails(i) =>
          LET id == calls[i].newRow[1].id
          IN /\ calls[i].newRow[1].image_url = Some(LogoPng)
             /\ medical_supplies' = medical_supplies
             /\ IsStored(id) => StoredRow(id).image_url = Some(LogoPng)
             /\ items' # <<>> /\ Tail(items') = items
             /\ Head(items').id = id /\ Head(items').imageUrl = LogoPng
             /\ ~isEditModalOpen' /\ ~isNewItemModalOpen'
             /\ formData' = EmptyForm /\ editingItem' = None /\ imageFile' = None
             /\ notice' = <<"Failed to upload image", "Item created successfully!">> ]_vars

\* the create has ended on a failed upload: the record is listed and stored
\* with the placeholder image
C30_Witness ==
  /\ notice = <<"Failed to upload image", "Item created successfully!">>
  /\ calls = <<>>
  /\ items # <<>> /\ items[1].imageUrl = LogoPng
  /\ IsStored(items[1].id) /\ StoredRow(items[1].id).image_url = Some(LogoPng)
  /\ ~isNewItemModalOpen /\ formData = EmptyForm /\ imageFile = None

=============================================================================
